---- MODULE Spec2Model ----
(***************************************************************************)
(* Model of the TyK notebook application: the cell execution engine        *)
(* (tyk_notebook_app/executor.py), its session registry, the request       *)
(* handlers that drive them (tyk_notebook_app/views.py), the import of a   *)
(* notebook file (importer.py) and the parsing of its parameter lines      *)
(* (parser.py).                                                            *)
(*                                                                         *)
(* Text is modelled as a sequence of one-character strings, so that the    *)
(* regular-expression rewriting of substitute_parameters and the literal   *)
(* evaluation done by exec() are computed character by character.          *)
(***************************************************************************)
EXTENDS Integers, Sequences, FiniteSets, TLC

(***************************************************************************)
(* Bounds of the model.                                                    *)
(***************************************************************************)
MaxEngines == 2

\* requests served in one run of the request handlers
MaxRequests == 3

\* request threads of the server process
NThreads == 2

\* imports started in one run of the importer
MaxImports == 2

\* messages in the trace list of one engine
MaxTrace == 2

(***************************************************************************)
(* Characters.                                                             *)
(***************************************************************************)
Digits == {"0", "1", "2", "3", "4", "5", "6", "7", "8", "9"}

OctDigits == {"0", "1", "2", "3", "4", "5", "6", "7"}

AsciiLetters ==
    {"a", "b", "c", "d", "e", "f", "g", "h", "i", "j", "k", "l", "m",
     "n", "o", "p", "q", "r", "s", "t", "u", "v", "w", "x", "y", "z",
     "A", "B", "C", "D", "E", "F", "G", "H", "I", "J", "K", "L", "M",
     "N", "O", "P", "Q", "R", "S", "T", "U", "V", "W", "X", "Y", "Z"}

DigitVal(c) ==
    CASE c = "0" -> 0 [] c = "1" -> 1 [] c = "2" -> 2 [] c = "3" -> 3
      [] c = "4" -> 4 [] c = "5" -> 5 [] c = "6" -> 6 [] c = "7" -> 7
      [] c = "8" -> 8 [] c = "9" -> 9

\* The double quote and the backquote, which a TLA+ string cannot hold.
DQ == "DQ"

BQ == "BQ"

SQ == "'"

BSL == "\\"

\* chr(n) for 64 <= n <= 127; every other code is not a printable source
\* character and is written "CTL".
Ascii64 ==
    <<"@", "A", "B", "C", "D", "E", "F", "G", "H", "I", "J", "K", "L", "M",
      "N", "O", "P", "Q", "R", "S", "T", "U", "V", "W", "X", "Y", "Z",
      "[", "\\", "]", "^", "_", BQ,
      "a", "b", "c", "d", "e", "f", "g", "h", "i", "j", "k", "l", "m",
      "n", "o", "p", "q", "r", "s", "t", "u", "v", "w", "x", "y", "z",
      "{", "|", "}", "~", "CTL">>

Chr(n) == IF n >= 64 /\ n <= 127 THEN Ascii64[n - 63] ELSE "CTL"

AllDigits(s) == Len(s) > 0 /\ \A i \in 1..Len(s) : s[i] \in Digits

TrueText == <<"T", "r", "u", "e">>

FalseText == <<"F", "a", "l", "s", "e">>

NoneText == <<"N", "o", "n", "e">>

(***************************************************************************)
(* Python values: a tag and a text payload.  An int carries its decimal    *)
(* digits (what str() prints), a str its characters.                       *)
(***************************************************************************)
IntV(ds) == [t |-> "int", v |-> ds]

StrV(cs) == [t |-> "str", v |-> cs]

TrueV == [t |-> "true", v |-> <<>>]

FalseV == [t |-> "false", v |-> <<>>]

NoneV == [t |-> "none", v |-> <<>>]

Unbound == [t |-> "unbound", v |-> <<>>]

\* a plotly.graph_objs.Figure whose layout title is the text title
FigureV(title) == [t |-> "Figure", v |-> title]

\* a list of one-digit integers, and a dict of one one-letter key
ListV(items) == [t |-> "list", v |-> items]

DictV(key, digit) == [t |-> "dict", v |-> <<key, digit>>]

\* [1, 2, 3]
RECURSIVE Joined(_)
Joined(items) ==
    IF Len(items) = 0 THEN <<>>
    ELSE IF Len(items) = 1 THEN <<items[1]>>
    ELSE <<items[1], ",", " ">> \o Joined(Tail(items))

ListText(items) == <<"[">> \o Joined(items) \o <<"]">>

\* {"a": 1} as written with the quote q; repr() writes {'a': 1}
DictText(q, kv) == <<"{", q, kv[1], q, ":", " ", kv[2], "}">>

\* str(value), as print() writes it
StrOf(val) ==
    CASE val.t = "int" -> val.v
      [] val.t = "str" -> val.v
      [] val.t = "true" -> TrueText
      [] val.t = "false" -> FalseText
      [] val.t = "list" -> ListText(val.v)
      [] val.t = "dict" -> DictText(SQ, val.v)
      [] OTHER -> NoneText

(***************************************************************************)
(* re.sub replacement templates (re._parser.parse_template of CPython):    *)
(* the template is the text `\1` + formatted value + `  \2` (or `\3`), and *)
(* re.sub parses it before any match is attempted.  A parsed template is a *)
(* sequence of literal characters and group references "G0".."G3"; ok is   *)
(* FALSE where parse_template raises re.error.                             *)
(***************************************************************************)
TemplateError == [ok |-> FALSE, out |-> <<>>]

Prepend(toks, r) == IF r.ok THEN [ok |-> TRUE, out |-> toks \o r.out] ELSE r

GroupTok(n) == CASE n = 0 -> "G0" [] n = 1 -> "G1" [] n = 2 -> "G2" [] OTHER -> "G3"

IsGroupTok(c) == c \in {"G0", "G1", "G2", "G3"}

\* ESCAPES of re._parser: the letters that stand for a control character
EscapeChar(c) ==
    CASE c = "n" -> "LF" [] c = "t" -> "TAB" [] c = "r" -> "CR" [] OTHER -> "CTL"

EscapeLetters == {"a", "b", "f", "n", "r", "t", "v"}

\* index of the first ">" at or after position j, 0 when there is none
RECURSIVE FindClose(_, _)
FindClose(t, j) ==
    IF j > Len(t) THEN 0 ELSE IF t[j] = ">" THEN j ELSE FindClose(t, j + 1)

RECURSIVE DecimalOf(_)
DecimalOf(ds) ==
    IF Len(ds) = 0 THEN 0
    ELSE 10 * DecimalOf(SubSeq(ds, 1, Len(ds) - 1)) + DigitVal(ds[Len(ds)])

\* the token that starts at position i of the template: what it expands
\* to and where the next token starts
Tok(toks, next) == [ok |-> TRUE, toks |-> toks, next |-> next]

BadTok == [ok |-> FALSE, toks |-> <<>>, next |-> 0]

TemplateToken(t, i, groups) ==
    IF t[i] # BSL THEN Tok(<<t[i]>>, i + 1)
    ELSE IF i = Len(t) THEN BadTok          \* bad escape (end of pattern)
    ELSE LET c == t[i + 1]
             n1 == IF i + 2 <= Len(t) THEN t[i + 2] ELSE "END"
             n2 == IF i + 3 <= Len(t) THEN t[i + 3] ELSE "END"
         IN  IF c = "g" THEN
                 \* \g<number>; the patterns have no named groups
                 LET j == FindClose(t, i + 3)
                     name == IF j = 0 THEN <<>> ELSE SubSeq(t, i + 3, j - 1)
                 IN  IF n1 # "<" \/ j = 0 THEN BadTok
                     ELSE IF AllDigits(name) /\ Len(name) <= 2 /\ DecimalOf(name) <= groups
                          THEN Tok(<<GroupTok(DecimalOf(name))>>, j + 1)
                          ELSE BadTok
             ELSE IF c = "0" THEN
                 \* octal escape of up to three digits
                 IF n1 \in OctDigits /\ n2 \in OctDigits
                 THEN Tok(<<Chr(8 * DigitVal(n1) + DigitVal(n2))>>, i + 4)
                 ELSE IF n1 \in OctDigits
                 THEN Tok(<<Chr(DigitVal(n1))>>, i + 3)
                 ELSE Tok(<<Chr(0)>>, i + 2)
             ELSE IF c \in Digits THEN
                 IF n1 \in Digits THEN
                     IF c \in OctDigits /\ n1 \in OctDigits /\ n2 \in OctDigits THEN
                         \* three octal digits: a character, not a group
                         LET code == 64 * DigitVal(c) + 8 * DigitVal(n1) + DigitVal(n2)
                         IN  IF code > 255 THEN BadTok ELSE Tok(<<Chr(code)>>, i + 4)
                     ELSE
                         \* two digits: group 10..99
                         IF 10 * DigitVal(c) + DigitVal(n1) > groups THEN BadTok
                         ELSE Tok(<<GroupTok(10 * DigitVal(c) + DigitVal(n1))>>, i + 3)
                 ELSE
                     IF DigitVal(c) > groups THEN BadTok
                     ELSE Tok(<<GroupTok(DigitVal(c))>>, i + 2)
             ELSE IF c = BSL THEN Tok(<<BSL>>, i + 2)
             ELSE IF c \in EscapeLetters THEN Tok(<<EscapeChar(c)>>, i + 2)
             ELSE IF c \in AsciiLetters THEN BadTok   \* bad escape \c
             ELSE Tok(<<BSL, c>>, i + 2)

RECURSIVE ParseTemplate(_, _, _)
ParseTemplate(t, i, groups) ==
    IF i > Len(t) THEN [ok |-> TRUE, out |-> <<>>]
    ELSE LET k == TemplateToken(t, i, groups)
         IN  IF ~k.ok THEN TemplateError
             ELSE Prepend(k.toks, ParseTemplate(t, k.next, groups))

(***************************************************************************)
(* Source text of a cell: a sequence of lines.  A line is                  *)
(*   assign  `name = text`, param: followed by a `# @param ...` comment    *)
(*   print   `print(name)`                                                 *)
(*   display `display(HTML(text))`                                         *)
(*   raise   `raise name(text)`                                            *)
(*   title   `# @title text`          pip  `!pip install text`             *)
(*   raw     any other text (what a rewrite can leave behind)              *)
(*   blank   an empty line or a comment                                    *)
(***************************************************************************)
Line(k, n, txt, p) == [kind |-> k, name |-> n, text |-> txt, param |-> p]

RECURSIVE StripRight(_)
StripRight(s) ==
    IF Len(s) > 0 /\ s[Len(s)] = " " THEN StripRight(SubSeq(s, 1, Len(s) - 1)) ELSE s

\* the literal rendering of a parameter value
FormatValue(value) ==
    CASE value.t = "str" -> <<DQ>> \o value.v \o <<DQ>>
      [] value.t = "true" -> TrueText
      [] value.t = "false" -> FalseText
      [] value.t = "none" -> NoneText
      [] value.t = "list" -> ListText(value.v)
      [] value.t = "dict" -> DictText(SQ, value.v)
      [] OTHER -> value.v

\* rf"\1{formatted}  \2"
ParamTemplate(formatted) == <<BSL, "1">> \o formatted \o <<" ", " ", BSL, "2">>

\* rf"\1{formatted}\3"
SimpleTemplate(formatted) == <<BSL, "1">> \o formatted \o <<BSL, "3">>

\* ^(name\s*=\s*).*?(#\s*@param.*)$
MatchesParamPattern(line, name) ==
    line.kind = "assign" /\ line.name = name /\ line.param

\* "[^"]*" | '[^']*' | \d+ | True | False | None
SimpleLiteral(txt) ==
    \/ /\ Len(txt) >= 2 /\ txt[1] = DQ /\ txt[Len(txt)] = DQ
       /\ \A i \in 2..(Len(txt) - 1) : txt[i] # DQ
    \/ /\ Len(txt) >= 2 /\ txt[1] = SQ /\ txt[Len(txt)] = SQ
       /\ \A i \in 2..(Len(txt) - 1) : txt[i] # SQ
    \/ AllDigits(txt)
    \/ txt \in {TrueText, FalseText, NoneText}

\* ^(name\s*=\s*)(<simple literal>)(\s*)$
MatchesSimplePattern(line, name) ==
    line.kind = "assign" /\ line.name = name /\ ~line.param /\ SimpleLiteral(line.text)

\* The matched line after the expanded template has replaced it: group 1
\* is the `name = ` prefix, the last group the comment or the trailing blanks.
Rewrite(line, toks) ==
    LET n == Len(toks)
        inner == SubSeq(toks, 2, n - 1)
        plain == SelectSeq(toks, LAMBDA c : ~IsGroupTok(c))
    IN  IF n >= 2 /\ toks[1] = "G1" /\ IsGroupTok(toks[n])
           /\ \A i \in 1..Len(inner) : ~IsGroupTok(inner[i])
        THEN Line("assign", line.name, StripRight(inner), line.param)
        ELSE IF n >= 1 /\ toks[1] # "G1" /\ Len(plain) = Len(toks) - 1
        THEN Line("raw", line.name, StripRight(plain), line.param)
        ELSE Line("raw", line.name, toks, line.param)

\* re.sub(pattern, replacement, result): every line the pattern matches is
\* replaced by the expanded template
ApplyParamPattern(code, name, toks) ==
    [i \in 1..Len(code) |->
        IF MatchesParamPattern(code[i], name) THEN Rewrite(code[i], toks) ELSE code[i]]

\* re.sub(pattern_simple, replacement_simple, result)
ApplySimplePattern(code, name, toks) ==
    [i \in 1..Len(code) |->
        IF MatchesSimplePattern(code[i], name) THEN Rewrite(code[i], toks) ELSE code[i]]

\* both re.sub calls, given the two parsed templates
Substituted(code, name, t1, t2) ==
    IF ~t1.ok \/ ~t2.ok THEN [ok |-> FALSE, code |-> code]
    ELSE [ok |-> TRUE,
          code |-> ApplySimplePattern(ApplyParamPattern(code, name, t1.out), name, t2.out)]

\* one iteration of the loop of substitute_parameters
SubstituteOne(code, name, value) ==
    Substituted(code, name,
                ParseTemplate(ParamTemplate(FormatValue(value)), 1, 2),
                ParseTemplate(SimpleTemplate(FormatValue(value)), 1, 3))

\* substitute_parameters(code, params); params is the dict in insertion
\* order, a sequence of <<name, value>>.  ok = FALSE: re.error is raised.
RECURSIVE substitute_parameters(_, _)
RECURSIVE SubstituteRest(_, _)
SubstituteRest(r, params) ==
    IF r.ok THEN substitute_parameters(r.code, params) ELSE r

substitute_parameters(code, params) ==
    IF Len(params) = 0 THEN [ok |-> TRUE, code |-> code]
    ELSE SubstituteRest(SubstituteOne(code, params[1][1], params[1][2]), Tail(params))

\* _sanitize_code: title directives are blanked, dependency installs are
\* turned into comments.  No source of the model mentions the hosted mount
\* point, so the path rewrite leaves the text as it is.
SanitizeLine(line) ==
    IF line.kind \in {"title", "pip"} THEN Line("blank", "", <<>>, FALSE) ELSE line

sanitize_code(code) == [i \in 1..Len(code) |-> SanitizeLine(code[i])]

(***************************************************************************)
(* exec(): evaluation of the right-hand side of an assignment, as the      *)
(* Python compiler and interpreter read it.  st is "value", "name" (an     *)
(* identifier, looked up at run time) or "syntax" (SyntaxError).           *)
(***************************************************************************)
Names == {"x", "y", "tyk", "BASE_PATH", "PATH"}

IdentStart == AsciiLetters \cup {"_"}

IsIdentifier(txt) ==
    /\ Len(txt) > 0
    /\ txt[1] \in IdentStart
    /\ \A i \in 1..Len(txt) : txt[i] \in IdentStart \cup Digits
    /\ txt \notin {TrueText, FalseText, NoneText}

Lit(st, val) == [st |-> st, val |-> val]

SyntaxErr == Lit("syntax", Unbound)

\* decimal digits without leading zeros; 007 is not a Python 3 literal
CanonDigits(ds) ==
    IF \A i \in 1..Len(ds) : ds[i] = "0" THEN <<"0">> ELSE ds

IntLiteralOK(ds) ==
    AllDigits(ds) /\ (ds[1] # "0" \/ \A i \in 1..Len(ds) : ds[i] = "0")

\* the character of a string literal that starts at position i: the
\* characters it stands for and where the next one starts
StringToken(txt, i) ==
    IF txt[i] \in {"LF", "CR"} THEN BadTok              \* end of line in a string
    ELSE IF txt[i] # BSL THEN Tok(<<txt[i]>>, i + 1)
    ELSE IF i = Len(txt) THEN BadTok
    ELSE LET c == txt[i + 1]
         IN  IF c \in {BSL, DQ, SQ} THEN Tok(<<c>>, i + 2)
             ELSE IF c \in EscapeLetters THEN Tok(<<EscapeChar(c)>>, i + 2)
             ELSE IF c \in OctDigits THEN Tok(<<"CTL">>, i + 2)
             ELSE IF c \in {"x", "u", "U", "N"} THEN BadTok
             ELSE Tok(<<BSL, c>>, i + 2)

RECURSIVE ScanString(_, _, _, _)
ScanString(txt, i, q, acc) ==
    IF i > Len(txt) THEN SyntaxErr                      \* unterminated
    ELSE IF txt[i] = q THEN
        IF i = Len(txt) THEN Lit("value", StrV(acc)) ELSE SyntaxErr
    ELSE LET k == StringToken(txt, i)
         IN  IF ~k.ok THEN SyntaxErr
             ELSE ScanString(txt, k.next, q, acc \o k.toks)

\* the items of a list display of one-digit integers from position i on
RECURSIVE ListItems(_, _, _)
ListItems(txt, i, acc) ==
    IF i > Len(txt) THEN SyntaxErr
    ELSE IF txt[i] = "]" THEN
        IF i = Len(txt) THEN Lit("value", ListV(acc)) ELSE SyntaxErr
    ELSE IF txt[i] = " " THEN ListItems(txt, i + 1, acc)
    ELSE IF txt[i] \notin Digits \/ i = Len(txt) THEN SyntaxErr
    ELSE IF txt[i + 1] = "," THEN ListItems(txt, i + 2, Append(acc, txt[i]))
    ELSE IF txt[i + 1] = "]" THEN ListItems(txt, i + 1, Append(acc, txt[i]))
    ELSE SyntaxErr

\* a dict display of one quoted one-letter key and a one-digit integer
DictLiteral(txt) ==
    IF /\ Len(txt) = 8
       /\ txt[2] \in {DQ, SQ} /\ txt[4] = txt[2] /\ txt[3] \in AsciiLetters
       /\ txt[5] = ":" /\ txt[6] = " " /\ txt[7] \in Digits /\ txt[8] = "}"
    THEN Lit("value", DictV(txt[3], txt[7]))
    ELSE SyntaxErr

EvalLiteral(txt) ==
    IF Len(txt) = 0 THEN SyntaxErr
    ELSE IF txt[1] = "[" THEN ListItems(txt, 2, <<>>)
    ELSE IF txt[1] = "{" THEN DictLiteral(txt)
    ELSE IF txt = TrueText THEN Lit("value", TrueV)
    ELSE IF txt = FalseText THEN Lit("value", FalseV)
    ELSE IF txt = NoneText THEN Lit("value", NoneV)
    ELSE IF AllDigits(txt) THEN
        IF IntLiteralOK(txt) THEN Lit("value", IntV(CanonDigits(txt))) ELSE SyntaxErr
    ELSE IF txt[1] = "-" /\ AllDigits(Tail(txt)) THEN
        IF ~IntLiteralOK(Tail(txt)) THEN SyntaxErr
        ELSE IF CanonDigits(Tail(txt)) = <<"0">> THEN Lit("value", IntV(<<"0">>))
        ELSE Lit("value", IntV(<<"-">> \o Tail(txt)))
    ELSE IF txt[1] \in {DQ, SQ} THEN ScanString(txt, 2, txt[1], <<>>)
    ELSE IF IsIdentifier(txt) THEN Lit("name", StrV(txt))
    ELSE SyntaxErr

\* compile(): the whole source is rejected when one line is not Python
LineCompiles(line) ==
    CASE line.kind = "assign" -> EvalLiteral(line.text).st # "syntax"
      [] line.kind = "raw" -> IsIdentifier(line.text)
      [] line.kind = "pip" -> FALSE
      [] OTHER -> TRUE

Compiles(code) == \A i \in 1..Len(code) : LineCompiles(code[i])

(***************************************************************************)
(* Exceptions.  base: the type derives from BaseException only, which      *)
(* `except Exception` does not catch.                                      *)
(***************************************************************************)
NoExc == [type |-> "", msg |-> <<>>, base |-> FALSE]

Exc(type, msg) ==
    [type |-> type, msg |-> msg,
     base |-> type \in {"SystemExit", "KeyboardInterrupt", "GeneratorExit"}]

\* a name of the namespace as source text, and back
NameText(n) ==
    CASE n = "BASE_PATH" -> <<"B", "A", "S", "E", "_", "P", "A", "T", "H">>
      [] n = "PATH" -> <<"P", "A", "T", "H">>
      [] n = "tyk" -> <<"t", "y", "k">>
      [] OTHER -> <<n>>

Lookup(ns, txt) ==
    IF \E n \in Names : NameText(n) = txt /\ ns[n] # Unbound
    THEN ns[CHOOSE n \in Names : NameText(n) = txt]
    ELSE Unbound

\* One statement run against the namespace ns: the new namespace, what it
\* printed, what it displayed and the exception it raised.
Step(ns, msgs, out, html, exc) ==
    [ns |-> ns, trace |-> msgs, out |-> out, html |-> html, exc |-> exc]

\* the value of an evaluated right-hand side; Unbound when it is a name
\* the namespace does not bind
ValueOf(ns, r) == IF r.st = "value" THEN r.val ELSE Lookup(ns, r.val.v)

\* name = value
Bind(ns, msgs, line, v) ==
    IF v = Unbound
    THEN Step(ns, msgs, <<>>, <<>>, Exc("NameError", line.text))
    ELSE Step([ns EXCEPT ![line.name] = v], msgs, <<>>, <<>>, NoExc)

\* what trace(msg) displays, without its timestamp
TraceHtml(msg) == <<"[", "]", " ">> \o msg

\* what trace_log() displays: every message of the list, or a notice
RECURSIVE LogLines(_)
LogLines(msgs) ==
    IF Len(msgs) = 0 THEN <<>> ELSE TraceHtml(msgs[1]) \o <<";">> \o LogLines(Tail(msgs))

LogHtml(msgs) ==
    <<"L", "o", "g", ":">> \o (IF Len(msgs) = 0 THEN <<"n", "o", "n", "e">> ELSE LogLines(msgs))

\* msgs is the _trace_messages list of the instance whose namespace ns is
ExecLine(ns, msgs, line) ==
    CASE line.kind = "assign" -> Bind(ns, msgs, line, ValueOf(ns, EvalLiteral(line.text)))
      [] line.kind = "print" ->
           IF ns[line.name] = Unbound
           THEN Step(ns, msgs, <<>>, <<>>, Exc("NameError", NameText(line.name)))
           ELSE Step(ns, msgs, <<StrOf(ns[line.name])>>, <<>>, NoExc)
      [] line.kind = "display" -> Step(ns, msgs, <<>>, <<line.text>>, NoExc)
      [] line.kind = "raise" -> Step(ns, msgs, <<>>, <<>>, Exc(line.name, line.text))
      [] line.kind = "raw" ->
           IF Lookup(ns, line.text) = Unbound
           THEN Step(ns, msgs, <<>>, <<>>, Exc("NameError", line.text))
           ELSE Step(ns, msgs, <<>>, <<>>, NoExc)
      [] line.kind = "trace" ->
           Step(ns, Append(msgs, line.text), <<>>, <<TraceHtml(line.text)>>, NoExc)
      [] line.kind = "trace_log" -> Step(ns, msgs, <<>>, <<LogHtml(msgs)>>, NoExc)
      [] line.kind = "figure" ->
           Step([ns EXCEPT ![line.name] = FigureV(line.text)], msgs, <<>>, <<>>, NoExc)
      [] OTHER -> Step(ns, msgs, <<>>, <<>>, NoExc)

\* exec(code, namespace): statements run in order until one raises; what
\* ran before the exception stays done.
Then(s1, rest) ==
    Step(rest.ns, rest.trace, s1.out \o rest.out, s1.html \o rest.html, rest.exc)

RECURSIVE RunLines(_, _, _, _)
RECURSIVE RunRest(_, _, _)
RunRest(s1, code, i) ==
    IF s1.exc # NoExc THEN s1 ELSE Then(s1, RunLines(s1.ns, s1.trace, code, i))

RunLines(ns, msgs, code, i) ==
    IF i > Len(code) THEN Step(ns, msgs, <<>>, <<>>, NoExc)
    ELSE RunRest(ExecLine(ns, msgs, code[i]), code, i + 1)

exec(ns, msgs, code) ==
    IF ~Compiles(code)
    THEN Step(ns, msgs, <<>>, <<>>, Exc("SyntaxError", <<"i", "n", "v", "a", "l", "i", "d">>))
    ELSE RunLines(ns, msgs, code, 1)

(***************************************************************************)
(* State.                                                                  *)
(***************************************************************************)
VARIABLES
    allocated,       \* number of CellExecutor instances constructed so far
    namespace,       \* CellExecutor.namespace, per instance
    base_path,       \* CellExecutor.base_path, per instance (<<>> is None)
    html_outputs,    \* CellExecutor._html_outputs, per instance
    trace_messages,  \* CellExecutor._trace_messages, per instance
    sessions,        \* SessionManager.sessions: key -> instance, 0 absent
    output_target,   \* the instance whose list _output_container holds
    last,            \* the operation that ran last, and what it returned
    nb_sessions,     \* NotebookSession rows, per (notebook, user)
    executions,      \* Execution rows, in the order they were created
    history,         \* the requests served so far, with their responses
    threads,         \* per request thread: where it is and its locals
    sys_stdout,      \* sys.stdout: the thread whose StringIO it is, 0 the console
    streams,         \* what was written to each thread's StringIO (0: console)
    notebook_table,  \* Notebook rows, by slug
    cell_table,      \* Cell rows, by id
    last_cell_id,    \* the id given to the Cell row created last
    importer         \* the import in progress: where it is and its locals

vars == <<allocated, namespace, base_path, html_outputs, trace_messages, sessions,
          output_target, last, nb_sessions, executions, history,
          threads, sys_stdout, streams, notebook_table, cell_table,
          last_cell_id, importer>>

\* the state of the database and of the request log
viewVars == <<nb_sessions, executions, history>>

\* the state of the request threads
threadVars == <<threads, sys_stdout, streams>>

\* the notebooks and their cells, and the import that writes them
importVars == <<notebook_table, cell_table, last_cell_id, importer>>

EngineIds == 1..MaxEngines

NoPath == <<>>

PathA == <<"/", "a">>

PathB == <<"/", "b">>

BasePaths == {PathA, PathB}

\* keys that callers pass to get_or_create_session
Keys == {"k1"}

\* keys that uuid.uuid4() produces in create_session
UuidKeys == {"u1"}

AllKeys == Keys \cup UuidKeys

Users == {1, 2}

\* session_key = f"user_{request.user.id}"
UserKey(u) == IF u = 1 THEN "user_1" ELSE "user_2"

UserKeys == {UserKey(u) : u \in Users}

SessionKeys == AllKeys \cup UserKeys

EmptyNamespace == [n \in Names |-> Unbound]

\* _setup_namespace: the user-visible part of the seeded namespace is the
\* pair BASE_PATH / PATH, set when the base path is not empty
setup_namespace(bp) ==
    IF bp # NoPath
    THEN [EmptyNamespace EXCEPT !["BASE_PATH"] = StrV(bp), !["PATH"] = StrV(bp)]
    ELSE EmptyNamespace

(***************************************************************************)
(* Sources and parameter dicts the operations are called with.             *)
(***************************************************************************)
Boom == <<"b", "o", "o", "m">>

\* # @title T / x = 10
CAssign == <<Line("title", "", <<"T">>, FALSE), Line("assign", "x", <<"1", "0">>, FALSE)>>

\* x = 10  # @param {"type":null}
CParam == <<Line("assign", "x", <<"1", "0">>, TRUE)>>

\* x = 'd' / print(x)
CStr == <<Line("assign", "x", <<SQ, "d", SQ>>, FALSE), Line("print", "x", <<>>, FALSE)>>

\* print(x)
CPrint == <<Line("print", "x", <<>>, FALSE)>>

\* y = True / raise ValueError("boom")
CRaise == <<Line("assign", "y", TrueText, FALSE), Line("raise", "ValueError", Boom, FALSE)>>

\* display(HTML("h")) / raise SystemExit("boom")
CExit == <<Line("display", "", <<"h">>, FALSE), Line("raise", "SystemExit", Boom, FALSE)>>

\* display(HTML("h")) / print(y)
CDisplay == <<Line("display", "", <<"h">>, FALSE), Line("print", "y", <<>>, FALSE)>>

\* x = -5
CNegative == <<Line("assign", "x", <<"-", "5">>, FALSE)>>

\* x = [1, 2, 3]
CList == <<Line("assign", "x", ListText(<<"1", "2", "3">>), FALSE)>>

\* x = {"a": 1}
CDict == <<Line("assign", "x", DictText(DQ, <<"a", "1">>), FALSE)>>

\* trace("o")
CTrace == <<Line("trace", "", <<"o">>, FALSE)>>

\* trace_log()
CTraceLog == <<Line("trace_log", "", <<>>, FALSE)>>

Codes ==
    {CAssign, CParam, CStr, CNegative, CPrint, CRaise, CExit, CDisplay, CList, CDict,
     CTrace, CTraceLog}

Twenty == IntV(<<"2", "0">>)

Seven == IntV(<<"7">>)

Alice == StrV(<<"A", "l">>)

MinusThree == IntV(<<"-", "3">>)

\* the string a"b
Quoted == StrV(<<"a", DQ, "b">>)

\* [4, 5, 6]
Four56 == ListV(<<"4", "5", "6">>)

\* {"b": 2}
DictB == DictV("b", "2")

ParamValues == {Twenty, Seven, MinusThree, Alice, Quoted, FalseV, NoneV, Four56, DictB}

ParamDicts == {<<>>} \cup {<< <<"x", v>> >> : v \in ParamValues}

(***************************************************************************)
(* CellExecutor.execute.  The result is the 4-tuple without the elapsed    *)
(* time, or raised = TRUE with the exception that left the call.           *)
(***************************************************************************)
Result(out, html, error, raised) ==
    [out |-> out, html |-> html, error |-> error, raised |-> raised]

NoResult == Result(<<>>, <<>>, NoExc, FALSE)

\* exec() rebinds names in self.namespace itself: whatever the statements
\* bound before an exception stays bound after it
KeptNamespaceReset(ns, run) == IF run.exc # NoExc THEN EmptyNamespace ELSE run.ns

KeptNamespace(ns, run) == run.ns

\* pio.to_html(obj, full_html=False, include_plotlyjs="cdn"): the figure
\* rendered as a <div>, written here as a mark followed by its title
to_html(fig) == <<"<", "d", "i", "v", ">">> \o fig.v

\* the order namespace.items() yields the names in; the sources of the
\* model bind a figure to one name only, so the order between two figures
\* does not arise
NamespaceItems == <<"x", "y", "tyk", "BASE_PATH", "PATH">>

\* _extract_plotly_figures: every value of the namespace that is a Figure,
\* rendered, whichever call bound it
RECURSIVE FiguresFrom(_, _)
FiguresFrom(ns, i) ==
    IF i > Len(NamespaceItems) THEN <<>>
    ELSE (IF ns[NamespaceItems[i]].t = "Figure" THEN <<to_html(ns[NamespaceItems[i]])>>
          ELSE <<>>) \o FiguresFrom(ns, i + 1)

extract_plotly_figures(ns) == FiguresFrom(ns, 1)

\* what execute does to one instance once exec() has run: e's namespace,
\* its display list, the container's target, and the value returned.  The
\* HTML is collected after exec() inside the try block, so a cell that
\* raises returns none; the figures found in the namespace follow the
\* display list in the value returned, and are not added to the list.
Outcome(e, ns, run) ==
    [ns |-> KeptNamespace(ns, run), trace |-> run.trace, list |-> run.html, target |-> e,
     res |-> IF run.exc = NoExc
             THEN Result(run.out, run.html \o extract_plotly_figures(run.ns), NoExc, FALSE)
             ELSE IF run.exc.base THEN Result(<<>>, <<>>, run.exc, TRUE)
             ELSE Result(run.out, <<>>, run.exc, FALSE)]

\* re.error leaves substitute_parameters, which runs outside the try block,
\* after the display list has been cleared
SubstitutionRaises(e, ns, msgs) ==
    [ns |-> ns, trace |-> msgs, list |-> <<>>, target |-> output_target,
     res |-> Result(<<>>, <<>>, Exc("error", <<>>), TRUE)]

ExecuteSubstituted(e, ns, msgs, sub) ==
    IF ~sub.ok THEN SubstitutionRaises(e, ns, msgs)
    ELSE Outcome(e, ns, exec(ns, msgs, sanitize_code(sub.code)))

\* execute(code, params) on instance e, whose namespace is ns and whose
\* _trace_messages list is msgs
Execute(e, ns, msgs, code, params) ==
    ExecuteSubstituted(e, ns, msgs,
        IF Len(params) > 0 THEN substitute_parameters(code, params)
        ELSE [ok |-> TRUE, code |-> code])

Op(op, e, key, code, params, res) ==
    [op |-> op, engine |-> e, key |-> key, bp |-> NoPath, code |-> code,
     params |-> params, res |-> res]

\* a registry operation called with a base path
RegOp(op, e, key, bp) ==
    [op |-> op, engine |-> e, key |-> key, bp |-> bp, code |-> <<>>,
     params |-> <<>>, res |-> NoResult]

\* self.namespace is a dict of the instance: a write reaches that instance only
StoreNamespaceShared(e, ns) == [f \in EngineIds |-> ns]

StoreNamespace(e, ns) == [namespace EXCEPT ![e] = ns]

(***************************************************************************)
(* The database: notebooks, their cells, and the rows the handlers write.  *)
(***************************************************************************)
\* the slugs of the notebooks in the database at the start
Notebooks == {"a", "b"}

\* the names notebooks are imported under
ImportNames == {"A", "C"}

\* django.utils.text.slugify, on those names
slugify(name) == IF name = "A" THEN "a" ELSE "c"

Slugs == Notebooks \cup {slugify(name) : name \in ImportNames}

\* tyk = True
CSetup == <<Line("assign", "tyk", TrueText, FALSE)>>

\* hi
CMarkdown == <<Line("raw", "", <<"h", "i">>, FALSE)>>

\* a Cell row with the names of its Parameter rows, in their order
CellRow(nb, type, order, setup, source, params) ==
    [notebook |-> nb, cell_type |-> type, order |-> order, is_setup_cell |-> setup,
     source_code |-> source, parameters |-> params]

\* the Cell table: notebook A sets up tyk and has a form cell with the
\* parameter x; notebook B has a setup cell that fails, a cell reading x
\* and a markdown cell added in the admin
Cells ==
    <<CellRow("a", "setup", 0, TRUE, CSetup, <<>>),
      CellRow("a", "code", 1, FALSE, CParam, <<"x">>),
      CellRow("b", "setup", 0, TRUE, CRaise, <<>>),
      CellRow("b", "code", 1, FALSE, CPrint, <<>>),
      CellRow("b", "markdown", 2, FALSE, CMarkdown, <<>>)>>

CellIds == DOMAIN Cells

\* the Parameter table
Parameters ==
    UNION {{[cell |-> c, name |-> cell_table[c].parameters[i]] :
               i \in 1..Len(cell_table[c].parameters)} : c \in DOMAIN cell_table}

\* the key f"{cell.id}_{param_name}" of NotebookSession.parameter_values
ParamKey(c, name) == <<c, name>>

\* a NotebookSession row; exists = FALSE when the table has none for the pair
NoSession ==
    [exists |-> FALSE, kernel_state |-> {},
     parameter_values |-> [k \in {} |-> Unbound], last_executed_cell |-> 0]

\* a request and the response to it
Request(op, u, nb, cell, params, res) ==
    [op |-> op, user |-> u, notebook |-> nb, cell |-> cell, params |-> params,
     res |-> res]

\* a request thread that has not started
NoThread ==
    [pc |-> "idle", key |-> "", code |-> <<>>, engine |-> 0, line |-> 0, old |-> 0,
     exc |-> NoExc, res |-> NoResult]

Threads == 1..NThreads

\* no import is running
NoImport ==
    [pc |-> "idle", slug |-> "", parsed_cells |-> <<>>, created |-> FALSE, order |-> 0,
     outcome |-> "", count |-> 0]

InitRows ==
    /\ notebook_table = [nb \in Notebooks |-> [name |-> nb, source_file |-> <<>>]]
    /\ cell_table = Cells
    /\ last_cell_id = Len(Cells)
    /\ importer = NoImport
    /\ nb_sessions = [p \in Slugs \X Users |-> NoSession]
    /\ executions = <<>>
    /\ history = <<>>
    /\ threads = [t \in Threads |-> NoThread]
    /\ sys_stdout = 0
    /\ streams = [t \in 0..NThreads |-> <<>>]

Init ==
    /\ allocated = 0
    /\ namespace = [e \in EngineIds |-> EmptyNamespace]
    /\ base_path = [e \in EngineIds |-> NoPath]
    /\ html_outputs = [e \in EngineIds |-> <<>>]
    /\ trace_messages = [e \in EngineIds |-> <<>>]
    /\ sessions = [k \in SessionKeys |-> 0]
    /\ output_target = 0
    /\ last = Op("init", 0, "", <<>>, <<>>, NoResult)
    /\ InitRows

\* CellExecutor.__init__: a new instance with a fresh namespace
Construct(e, bp) ==
    /\ allocated < MaxEngines
    /\ e = allocated + 1
    /\ allocated' = e
    /\ namespace' = StoreNamespace(e, setup_namespace(bp))
    /\ base_path' = [base_path EXCEPT ![e] = bp]
    /\ html_outputs' = [html_outputs EXCEPT ![e] = <<>>]

\* executor = CellExecutor(base_path), held by the caller
NewExecutor ==
    \E bp \in BasePaths \cup {NoPath} :
        /\ Construct(allocated + 1, bp)
        /\ last' = RegOp("new", allocated + 1, "", bp)
        /\ UNCHANGED <<sessions, output_target, viewVars, threadVars, importVars, trace_messages>>

\* executor.execute(code, params), for the sources and dicts given
Executed(e, code, params, r) ==
    /\ Len(r.trace) <= MaxTrace
    /\ namespace' = StoreNamespace(e, r.ns)
    /\ trace_messages' = [trace_messages EXCEPT ![e] = r.trace]
    /\ html_outputs' = [html_outputs EXCEPT ![e] = r.list]
    /\ output_target' = r.target
    /\ last' = Op("execute", e, "", code, params, r.res)
    /\ UNCHANGED <<allocated, base_path, sessions, viewVars, threadVars, importVars>>

ExecuteWith(codes, dicts) ==
    \E e \in 1..allocated, code \in codes, params \in dicts :
        Executed(e, code, params, Execute(e, namespace[e], trace_messages[e], code, params))

ExecuteCell == ExecuteWith(Codes, ParamDicts)

\* executor.set_variable(name, value)
SetVariable ==
    \E e \in 1..allocated :
        /\ namespace' = StoreNamespace(e, [namespace[e] EXCEPT !["x"] = IntV(<<"1", "0">>)])
        /\ last' = Op("set_variable", e, "", <<>>, <<>>, NoResult)
        /\ UNCHANGED <<allocated, base_path, html_outputs, sessions, output_target,
                       viewVars, threadVars, importVars, trace_messages>>

\* namespace.clear() followed by _setup_namespace()
ResetNamespaceKept(e) == namespace[e]

ResetNamespace(e) == setup_namespace(base_path[e])

\* executor.reset()
reset(e) ==
    /\ namespace' = StoreNamespace(e, ResetNamespace(e))
    /\ html_outputs' = [html_outputs EXCEPT ![e] = <<>>]

Reset ==
    \E e \in 1..allocated :
        /\ reset(e)
        /\ last' = Op("reset", e, "", <<>>, <<>>, NoResult)
        /\ UNCHANGED <<allocated, base_path, sessions, output_target,
                       viewVars, threadVars, importVars, trace_messages>>

(***************************************************************************)
(* SessionManager.                                                         *)
(***************************************************************************)
\* session_key in self.sessions
KeyPresentNever(key) == FALSE

KeyPresent(key) == sessions[key] # 0

\* get_or_create_session(session_key, base_path)
GetOrCreateSession ==
    \E key \in Keys, bp \in BasePaths :
        /\ IF ~KeyPresent(key)
           THEN /\ Construct(allocated + 1, bp)
                /\ sessions' = [sessions EXCEPT ![key] = allocated + 1]
           ELSE UNCHANGED <<allocated, namespace, base_path, html_outputs, sessions>>
        /\ last' = RegOp("get_or_create", sessions'[key], key, bp)
        /\ UNCHANGED <<output_target, viewVars, threadVars, importVars, trace_messages>>

\* create_session(base_path)
CreateSession ==
    \E key \in UuidKeys, bp \in BasePaths :
        /\ sessions[key] = 0
        /\ Construct(allocated + 1, bp)
        /\ sessions' = [sessions EXCEPT ![key] = allocated + 1]
        /\ last' = RegOp("create", allocated + 1, key, bp)
        /\ UNCHANGED <<output_target, viewVars, threadVars, importVars, trace_messages>>

\* destroy_session(session_key)
DestroySession ==
    \E key \in AllKeys :
        /\ sessions' = IF KeyPresent(key) THEN [sessions EXCEPT ![key] = 0] ELSE sessions
        /\ last' = Op("destroy", sessions[key], key, <<>>, <<>>, NoResult)
        /\ UNCHANGED <<allocated, namespace, base_path, html_outputs, output_target,
                       viewVars, threadVars, importVars, trace_messages>>

\* reset_session(session_key)
ResetSession ==
    \E key \in AllKeys :
        /\ IF KeyPresent(key)
           THEN reset(sessions[key])
           ELSE UNCHANGED <<namespace, html_outputs>>
        /\ last' = Op("reset_session", sessions[key], key, <<>>, <<>>, NoResult)
        /\ UNCHANGED <<allocated, base_path, sessions, output_target,
                       viewVars, threadVars, importVars, trace_messages>>

(***************************************************************************)
(* Spec: one engine, as the executor tests drive it.                       *)
(***************************************************************************)
InitEngine ==
    /\ allocated = 1
    /\ namespace = [e \in EngineIds |-> EmptyNamespace]
    /\ base_path = [e \in EngineIds |-> NoPath]
    /\ html_outputs = [e \in EngineIds |-> <<>>]
    /\ trace_messages = [e \in EngineIds |-> <<>>]
    /\ sessions = [k \in SessionKeys |-> 0]
    /\ output_target = 0
    /\ last = Op("init", 0, "", <<>>, <<>>, NoResult)
    /\ InitRows

Next ==
    \/ ExecuteCell
    \/ SetVariable
    \/ Reset

Spec == InitEngine /\ [][Next]_vars

(***************************************************************************)
(* SpecRegistry: several engines, constructed directly or through the      *)
(* session registry, running the two sources of the isolation tests.       *)
(***************************************************************************)
\* x = 10
CSet == <<Line("assign", "x", <<"1", "0">>, FALSE)>>

ExecuteShort == ExecuteWith({CSet, CPrint}, {<<>>})

NextRegistry ==
    \/ NewExecutor
    \/ ExecuteShort
    \/ SetVariable
    \/ GetOrCreateSession
    \/ CreateSession
    \/ DestroySession
    \/ ResetSession

SpecRegistry == Init /\ [][NextRegistry]_vars

(***************************************************************************)
(* SpecViews: the request handlers of views.py, served one at a time.      *)
(***************************************************************************)
\* settings.TYK_DATA_PATH
DataPath == PathA

\* os.path.dirname(notebook.source_file)
SourceDir(nb) == PathB

\* base_path = settings.TYK_DATA_PATH, or the notebook's directory
ViewBasePath(nb) == IF DataPath # NoPath THEN DataPath ELSE SourceDir(nb)

\* the instance get_or_create_session(key, ...) returns
EngineOf(key) == IF KeyPresent(key) THEN sessions[key] ELSE allocated + 1

\* its namespace and its display list when the handler gets it
SessionNamespace(key, bp) ==
    IF KeyPresent(key) THEN namespace[sessions[key]] ELSE setup_namespace(bp)

SessionOutputs(key) ==
    IF KeyPresent(key) THEN html_outputs[sessions[key]] ELSE <<>>

\* get_or_create_session(key, bp) followed by the executes of a handler on
\* the instance e it returned, r being what they left
Served(key, bp, e, r) ==
    /\ KeyPresent(key) \/ allocated < MaxEngines
    /\ allocated' = IF KeyPresent(key) THEN allocated ELSE e
    /\ sessions' = [sessions EXCEPT ![key] = e]
    /\ base_path' = IF KeyPresent(key) THEN base_path ELSE [base_path EXCEPT ![e] = bp]
    /\ namespace' = StoreNamespace(e, r.ns)
    /\ html_outputs' = [html_outputs EXCEPT ![e] = r.list]
    /\ trace_messages' = [trace_messages EXCEPT ![e] = r.trace]
    /\ output_target' = r.target

\* NotebookSession.objects.get_or_create(notebook=nb, user=u)
Fetched(nb, u) ==
    IF nb_sessions[nb, u].exists THEN nb_sessions[nb, u]
    ELSE [NoSession EXCEPT !.exists = TRUE]

\* the request is logged with its response
Logged(req, e) ==
    /\ history' = Append(history, req)
    /\ last' = Op(req.op, e, UserKey(req.user), <<>>, req.params, req.res)

\* notebook.cells.filter(is_setup_cell=True).order_by("order")
SetupIds(nb) ==
    {c \in DOMAIN cell_table : cell_table[c].notebook = nb /\ cell_table[c].is_setup_cell}

RECURSIVE OrderBy(_)
OrderBy(S) ==
    IF S = {} THEN <<>>
    ELSE LET c == CHOOSE c \in S : \A d \in S : cell_table[c].order <= cell_table[d].order
         IN  <<c>> \o OrderBy(S \ {c})

\* the loop of run_setup over the setup cells: the instance's namespace and
\* display list, the container's target, the errors and the output so far
SetupAcc(ns, msgs, list, target, errors, out, raised) ==
    [ns |-> ns, trace |-> msgs, list |-> list, target |-> target, errors |-> errors,
     out |-> out, raised |-> raised]

AfterSetupCell(acc, r) ==
    SetupAcc(r.ns, r.trace, r.list, r.target,
             IF r.res.error # NoExc THEN acc.errors \o <<r.res.error>> ELSE acc.errors,
             acc.out \o r.res.out, r.res.raised)

RECURSIVE RunSetupCells(_, _, _, _)
RunSetupCells(e, ids, i, acc) ==
    IF i > Len(ids) \/ acc.raised THEN acc
    ELSE RunSetupCells(e, ids, i + 1,
             AfterSetupCell(acc, Execute(e, acc.ns, acc.trace,
                                         cell_table[ids[i]].source_code, <<>>)))

SetupResponse(acc) ==
    Result(acc.out, <<>>, IF acc.errors = <<>> THEN NoExc ELSE acc.errors[1], acc.raised)

\* kernel_state["setup_complete"] = value
SetKernelState(ks, value) ==
    {p \in ks : p[1] # "setup_complete"} \cup {<<"setup_complete", value>>}

SetupServed(u, nb, e, acc) ==
    /\ Served(UserKey(u), ViewBasePath(nb), e, acc)
    /\ nb_sessions' =
          IF acc.raised THEN nb_sessions
          ELSE [nb_sessions EXCEPT ![nb, u] =
                  [Fetched(nb, u) EXCEPT
                      !.kernel_state = SetKernelState(@, acc.errors = <<>>)]]
    /\ Logged(Request("run_setup", u, nb, 0, <<>>, SetupResponse(acc)), e)
    /\ UNCHANGED <<executions, threadVars, importVars>>

\* POST notebook/<slug>/setup/
RunSetup ==
    \E u \in Users, nb \in DOMAIN notebook_table :
        /\ Len(history) < MaxRequests
        /\ SetupServed(u, nb, EngineOf(UserKey(u)),
              RunSetupCells(EngineOf(UserKey(u)), OrderBy(SetupIds(nb)), 1,
                  SetupAcc(SessionNamespace(UserKey(u), ViewBasePath(nb)),
                           trace_messages[EngineOf(UserKey(u))],
                           SessionOutputs(UserKey(u)), output_target, <<>>, <<>>, FALSE)))

\* the parameters a request posts for a cell
RequestParams(c) ==
    IF \E p \in Parameters : p.cell = c
    THEN {<<>>, << <<"x", Alice>> >>, << <<"x", Seven>> >>}
    ELSE {<<>>}

\* Execution.objects.create(...)
ExecutionRow(c, params, res) ==
    [cell |-> c, parameters |-> params,
     status |-> IF res.error # NoExc THEN "error" ELSE "success",
     output_text |-> res.out, output_html |-> res.html, error_message |-> res.error]

\* nb_session.parameter_values[f"{cell.id}_{param_name}"] = value, for
\* every parameter posted, and nb_session.last_executed_cell = cell
Saved(row, c, params) ==
    [row EXCEPT
        !.parameter_values =
            [k \in DOMAIN @ \cup {ParamKey(c, params[i][1]) : i \in 1..Len(params)} |->
                IF \E i \in 1..Len(params) : k = ParamKey(c, params[i][1])
                THEN params[CHOOSE i \in 1..Len(params) : k = ParamKey(c, params[i][1])][2]
                ELSE @[k]],
        !.last_executed_cell = c]

CellServed(u, c, params, e, r) ==
    /\ Served(UserKey(u), ViewBasePath(cell_table[c].notebook), e, r)
    /\ IF r.res.raised
       THEN UNCHANGED <<nb_sessions, executions>>
       ELSE /\ executions' = Append(executions, ExecutionRow(c, params, r.res))
            /\ nb_sessions' =
                  [nb_sessions EXCEPT ![cell_table[c].notebook, u] =
                      Saved(Fetched(cell_table[c].notebook, u), c, params)]
    /\ Logged(Request("run_cell", u, cell_table[c].notebook, c, params, r.res), e)
    /\ UNCHANGED <<threadVars, importVars>>

\* POST cell/<id>/run/
RunCellBy(users, limit) ==
    \E u \in users, c \in DOMAIN cell_table :
        \E params \in RequestParams(c) :
            /\ Len(history) < limit
            /\ CellServed(u, c, params, EngineOf(UserKey(u)),
                  Execute(EngineOf(UserKey(u)),
                          SessionNamespace(UserKey(u), ViewBasePath(cell_table[c].notebook)),
                          trace_messages[EngineOf(UserKey(u))],
                          cell_table[c].source_code, params))

RunCell == RunCellBy(Users, MaxRequests)

\* POST notebook/<slug>/reset/
ResetSessionView ==
    \E u \in Users, nb \in DOMAIN notebook_table :
        /\ Len(history) < MaxRequests
        /\ IF KeyPresent(UserKey(u))
           THEN reset(sessions[UserKey(u)])
           ELSE UNCHANGED <<namespace, html_outputs>>
        /\ nb_sessions' = [nb_sessions EXCEPT ![nb, u] = NoSession]
        /\ Logged(Request("reset_session", u, nb, 0, <<>>, NoResult),
                  sessions[UserKey(u)])
        /\ UNCHANGED <<allocated, base_path, sessions, output_target, executions,
                       threadVars, importVars, trace_messages>>

\* _build_chart_code(chart_type, params): an expression on tyk
ChartTypes == {"world_map"}

build_chart_code(chart_type) ==
    IF chart_type \in ChartTypes
    THEN <<Line("raw", "", NameText("tyk"), FALSE)>>
    ELSE <<Line("blank", "", <<>>, FALSE)>>

\* JsonResponse({"error": "TyK not initialized...", "needs_setup": True}, status=400)
NeedsSetupResponse ==
    [out |-> <<>>, html |-> <<>>,
     error |-> [type |-> "", msg |-> <<"s", "e", "t", "u", "p">>, base |-> FALSE],
     raised |-> FALSE, needs_setup |-> TRUE]

\* the response carries needs_setup: True
NeedsSetup(res) == "needs_setup" \in DOMAIN res /\ res.needs_setup

ChartServed(u, nb, e, ns, r) ==
    /\ Served(UserKey(u), ViewBasePath(nb), e,
              IF ns["tyk"] = Unbound
              THEN [ns |-> ns, trace |-> trace_messages[e],
                    list |-> SessionOutputs(UserKey(u)), target |-> output_target]
              ELSE r)
    /\ Logged(Request("render_chart", u, nb, 0, <<>>,
                      IF ns["tyk"] = Unbound THEN NeedsSetupResponse ELSE r.res), e)
    /\ UNCHANGED <<nb_sessions, executions, threadVars, importVars>>

\* POST notebook/<slug>/dashboard/render/
RenderDashboardChart ==
    \E u \in Users, nb \in DOMAIN notebook_table, chart_type \in ChartTypes :
        /\ Len(history) < MaxRequests
        /\ ChartServed(u, nb, EngineOf(UserKey(u)),
              SessionNamespace(UserKey(u), ViewBasePath(nb)),
              Execute(EngineOf(UserKey(u)),
                      SessionNamespace(UserKey(u), ViewBasePath(nb)),
                      trace_messages[EngineOf(UserKey(u))],
                      build_chart_code(chart_type), <<>>))

NextViews ==
    \/ RunSetup
    \/ RunCell
    \/ ResetSessionView
    \/ RenderDashboardChart

SpecViews == Init /\ [][NextViews]_vars

(***************************************************************************)
(* SpecApi: api_execute (views.py), which needs no login, served between   *)
(* the run_cell requests of the logged-in users.                           *)
(***************************************************************************)
\* the session_id of the request body; "" when it has none
ApiSessionIds == SessionKeys \cup {""}

\* x = 10 / print(x)
ApiCodes == {CSet, CPrint}

\* the key the code runs under: str(uuid.uuid4()) without a session_id
ApiKey(session_id) ==
    IF session_id = "" THEN CHOOSE key \in UuidKeys : TRUE ELSE session_id

ApiServed(key, code, e, r) ==
    /\ Served(key, NoPath, e, r)
    /\ history' = Append(history, Request("api_execute", 0, "", 0, <<>>, r.res))
    /\ last' = Op("api_execute", e, key, code, <<>>, r.res)
    /\ UNCHANGED <<nb_sessions, executions, threadVars, importVars>>

\* POST api/execute/
ApiExecute ==
    \E session_id \in ApiSessionIds, code \in ApiCodes :
        /\ Len(history) < MaxRequests
        /\ session_id = "" => ~KeyPresent(ApiKey(session_id))
        /\ ApiServed(ApiKey(session_id), code, EngineOf(ApiKey(session_id)),
              Execute(EngineOf(ApiKey(session_id)),
                      SessionNamespace(ApiKey(session_id), NoPath),
                      trace_messages[EngineOf(ApiKey(session_id))], code, <<>>))

NextApi ==
    \/ RunCell
    \/ ApiExecute

SpecApi == Init /\ [][NextApi]_vars

(***************************************************************************)
(* SpecCharts: one caller constructing engines, running sources that       *)
(* create charts and display HTML, and resetting.                          *)
(***************************************************************************)
\* import plotly.graph_objs as go; y = go.Figure(layout_title_text="f")
CFigure == <<Line("figure", "y", <<"f">>, FALSE)>>

\* import plotly.graph_objs as go; y = go.Figure(layout_title_text="g")
CFigureG == <<Line("figure", "y", <<"g">>, FALSE)>>

\* display(HTML("h"))
CHtml == <<Line("display", "", <<"h">>, FALSE)>>

\* y = 0
CRebind == <<Line("assign", "y", <<"0">>, FALSE)>>

ChartCodes == {CFigure, CFigureG, CHtml, CSet, CRebind}

ExecuteChart == ExecuteWith(ChartCodes, {<<>>})

NextCharts == NewExecutor \/ ExecuteChart \/ Reset

SpecCharts == Init /\ [][NextCharts]_vars

(***************************************************************************)
(* SpecImport: import_notebook (importer.py), statement by statement, with *)
(* one request running a cell of what is in the database.                  *)
(***************************************************************************)
\* !pip install tyk / tyk = True
CInstall == <<Line("pip", "", <<"t", "y", "k">>, FALSE), Line("assign", "tyk", TrueText, FALSE)>>

\* x = 10  # @param {"type":null} / x = 10  # @param {"type":null}
CParamTwice == CParam \o CParam

\* the sources of the cells of the files imported, split at their @title
\* lines: a notebook with a setup cell and a form, and one whose form
\* assigns its parameter twice
Files == {<<CInstall, CParam, CPrint>>, <<CInstall, CParamTwice, CPrint>>}

\* the names of the @param lines of a cell, in their order
RECURSIVE ParamNames(_, _)
ParamNames(code, i) ==
    IF i > Len(code) THEN <<>>
    ELSE (IF code[i].kind = "assign" /\ code[i].param THEN <<code[i].name>> ELSE <<>>)
             \o ParamNames(code, i + 1)

\* the text of a line of source
SourceText(l) ==
    CASE l.kind = "triple" ->
           (IF l.name \in {"open", "both", "bare"} THEN <<DQ, DQ, DQ>> ELSE <<>>)
               \o l.text
               \o (IF l.name \in {"close", "both"} THEN <<DQ, DQ, DQ>> ELSE <<>>)
      [] l.kind = "title" ->
           <<"#", " ", "@", "t", "i", "t", "l", "e">>
               \o (IF Len(l.text) > 0 THEN <<" ">> \o l.text ELSE <<>>)
      [] l.kind = "pip" ->
           <<"!", "p", "i", "p", " ", "i", "n", "s", "t", "a", "l", "l", " ">> \o l.text
      [] l.kind = "assign" ->
           NameText(l.name) \o <<" ", "=", " ">> \o l.text
               \o (IF l.param THEN <<" ", " ", "#", " ", "@", "p", "a", "r", "a", "m">>
                   ELSE <<>>)
      [] l.kind = "print" -> <<"p", "r", "i", "n", "t", "(">> \o NameText(l.name) \o <<")">>
      [] l.kind = "display" ->
           <<"d", "i", "s", "p", "l", "a", "y", "(">> \o l.text \o <<")">>
      [] l.kind = "raise" -> <<"r", "a", "i", "s", "e", " ">> \o l.text
      [] l.kind = "trace" -> <<"t", "r", "a", "c", "e", "(">> \o l.text \o <<")">>
      [] l.kind = "trace_log" -> <<"t", "r", "a", "c", "e", "_", "l", "o", "g", "(", ")">>
      [] OTHER -> l.text

\* c.lower(); the two characters of the mis-decoded accent are written
\* by name
LowerChar(c) ==
    IF \E i \in 2..27 : Ascii64[i] = c
    THEN Ascii64[(CHOOSE i \in 2..27 : Ascii64[i] = c) + 32]
    ELSE IF c = "ATILDE" THEN "atilde"
    ELSE c

\* s.lower()
lower(s) == [i \in 1..Len(s) |-> LowerChar(s[i])]

\* kw in s
Contains(s, kw) ==
    \E i \in 1..(Len(s) - Len(kw) + 1) : SubSeq(s, i, i + Len(kw) - 1) = kw

setup_keywords ==
    {<<"i", "m", "p", "o", "r", "t", " ">>,
     <<"f", "r", "o", "m", " ">>,
     <<"p", "i", "p", " ", "i", "n", "s", "t", "a", "l", "l">>,
     <<"!", "p", "i", "p">>,
     <<"d", "r", "i", "v", "e", ".", "m", "o", "u", "n", "t">>,
     <<"g", "o", "o", "g", "l", "e", ".", "c", "o", "l", "a", "b">>,
     <<"I", "n", "i", "c", "i", "a", "l", "i", "z", "a", "n", "d", "o">>,
     <<"E", "s", "t", "a", "b", "l", "e", "c", "i", "e", "n", "d", "o", " ",
       "c", "o", "n", "e", "x", "i", "ATILDE", "SUP3", "n">>,
     <<"c", "l", "a", "s", "s", " ", "T", "y", "K">>}

\* any(kw.lower() in source_lower or kw.lower() in title_lower for kw in
\* setup_keywords); no keyword holds a line end, so the source has one
\* where one of its lines has
is_setup(code, title) ==
    \E kw \in setup_keywords :
        \/ \E i \in 1..Len(code) : Contains(lower(SourceText(code[i])), lower(kw))
        \/ Contains(lower(title), lower(kw))

\* _identify_setup_cells for a cell without a title: a setup keyword in the
\* source and no parameter
IsSetup(code) ==
    /\ is_setup(code, <<>>)
    /\ ParamNames(code, 1) = <<>>

\* parser.parse_file(filepath)
ParsedCell(code) ==
    [source_code |-> code, parameters |-> ParamNames(code, 1),
     is_setup_cell |-> IsSetup(code),
     cell_type |-> IF IsSetup(code) THEN "setup" ELSE "code"]

parse_file(file) == [i \in 1..Len(file) |-> ParsedCell(file[i])]

\* notebook.cells.all()
ExistingCells(slug) == {c \in DOMAIN cell_table : cell_table[c].notebook = slug}

\* parse_file and Notebook.objects.update_or_create(slug=slug, defaults=...)
StartImport ==
    \E name \in ImportNames, file \in Files :
        /\ importer.pc = "idle"
        /\ importer.count < MaxImports
        /\ notebook_table' =
              [nb \in DOMAIN notebook_table \cup {slugify(name)} |->
                  IF nb = slugify(name) THEN [name |-> name, source_file |-> file]
                  ELSE notebook_table[nb]]
        /\ importer' =
              [pc |-> IF slugify(name) \in DOMAIN notebook_table THEN "clear" ELSE "create",
               slug |-> slugify(name), parsed_cells |-> parse_file(file),
               created |-> slugify(name) \notin DOMAIN notebook_table, order |-> 0,
               outcome |-> "", count |-> importer.count + 1]
        /\ UNCHANGED <<allocated, namespace, base_path, html_outputs, sessions,
                       output_target, last, viewVars, threadVars, cell_table,
                       last_cell_id,
                   trace_messages>>

\* Execution rows go with their cell (on_delete=CASCADE)
KeptExecutions(deleted) ==
    LET Kept(row) == row.cell \notin deleted
    IN  SelectSeq(executions, Kept)

\* notebook.cells.all().delete(): the cells go, with their parameters and
\* executions; sessions forget their last executed cell (SET_NULL)
ClearCells ==
    /\ importer.pc = "clear"
    /\ cell_table' = [c \in DOMAIN cell_table \ ExistingCells(importer.slug) |-> cell_table[c]]
    /\ executions' = KeptExecutions(ExistingCells(importer.slug))
    /\ nb_sessions' =
          [p \in DOMAIN nb_sessions |->
              IF nb_sessions[p].last_executed_cell \in ExistingCells(importer.slug)
              THEN [nb_sessions[p] EXCEPT !.last_executed_cell = 0]
              ELSE nb_sessions[p]]
    /\ importer' = [importer EXCEPT !.pc = "create"]
    /\ UNCHANGED <<allocated, namespace, base_path, html_outputs, sessions,
                   output_target, last, history, threadVars, notebook_table,
                   last_cell_id,
                   trace_messages>>

\* the Parameter rows created for a cell before one repeats a name of the
\* cell (unique_together = ['cell', 'name'])
RECURSIVE CreatedParameters(_, _)
CreatedParameters(names, i) ==
    IF i > Len(names) \/ \E j \in 1..(i - 1) : names[j] = names[i] THEN <<>>
    ELSE <<names[i]>> \o CreatedParameters(names, i + 1)

\* one turn of the loop: Cell.objects.create(..., order=order * 5, ...) and
\* Parameter.objects.create(...) for each parsed parameter; IntegrityError
\* leaves import_notebook
CreateCell ==
    /\ importer.pc = "create"
    /\ importer.order < Len(importer.parsed_cells)
    /\ last_cell_id' = last_cell_id + 1
    /\ cell_table' =
          [c \in DOMAIN cell_table \cup {last_cell_id + 1} |->
              IF c = last_cell_id + 1
              THEN CellRow(importer.slug,
                           importer.parsed_cells[importer.order + 1].cell_type,
                           importer.order * 5,
                           importer.parsed_cells[importer.order + 1].is_setup_cell,
                           importer.parsed_cells[importer.order + 1].source_code,
                           CreatedParameters(
                               importer.parsed_cells[importer.order + 1].parameters, 1))
              ELSE cell_table[c]]
    /\ importer' =
          IF CreatedParameters(importer.parsed_cells[importer.order + 1].parameters, 1)
                = importer.parsed_cells[importer.order + 1].parameters
          THEN [importer EXCEPT !.order = @ + 1]
          ELSE [importer EXCEPT !.pc = "idle", !.outcome = "failed"]
    /\ UNCHANGED <<allocated, namespace, base_path, html_outputs, sessions,
                   output_target, last, viewVars, threadVars, notebook_table,
                   trace_messages>>

\* return notebook
FinishImport ==
    /\ importer.pc = "create"
    /\ importer.order = Len(importer.parsed_cells)
    /\ importer' = [importer EXCEPT !.pc = "idle", !.outcome = "ok"]
    /\ UNCHANGED <<allocated, namespace, base_path, html_outputs, sessions,
                   output_target, last, viewVars, threadVars, notebook_table,
                   cell_table, last_cell_id,
                   trace_messages>>

\* requests served while the importer works
ImportRequests == 1

RunCellOnce == RunCellBy({1}, ImportRequests)

NextImport ==
    \/ StartImport
    \/ ClearCells
    \/ CreateCell
    \/ FinishImport
    \/ RunCellOnce

SpecImport == Init /\ [][NextImport]_vars

(***************************************************************************)
(* SpecParser: ColabNotebookParser._parse_param_line (parser.py), on the   *)
(* three groups PARAM_PATTERN finds in a line `name = default  # @param    *)
(* spec`: the name, the text of the default, and the spec, which is read   *)
(* by json.loads and is given here as its JSON tokens.                     *)
(***************************************************************************)
JsonStrings ==
    {"\"type\"", "\"slider\"", "\"string\"", "\"boolean\"", "\"integer\"",
     "\"min\"", "\"max\"", "\"step\"", "\"a\"", "\"run\"", "\"auto\""}

JsonNumbers == {"0", "1", "2", "5", "9", "100", "-10"}

JsonValues == JsonStrings \cup JsonNumbers \cup {"null"}

\* the Python value json.loads gives for a JSON value
PyValue(tok) == IF tok = "null" THEN "None" ELSE tok

JsonError == [ok |-> FALSE, obj |-> <<>>]

\* the members of a JSON object from token i on: "key" : value , ... }
RECURSIVE JsonMembers(_, _, _)
JsonMembers(toks, i, acc) ==
    IF i + 3 > Len(toks) THEN JsonError
    ELSE IF toks[i] \notin JsonStrings \/ toks[i + 1] # ":" \/ toks[i + 2] \notin JsonValues
    THEN JsonError
    ELSE IF toks[i + 3] = "}" THEN
        IF i + 3 = Len(toks)
        THEN [ok |-> TRUE, obj |-> Append(acc, <<toks[i], PyValue(toks[i + 2])>>)]
        ELSE JsonError
    ELSE IF toks[i + 3] = ","
    THEN JsonMembers(toks, i + 4, Append(acc, <<toks[i], PyValue(toks[i + 2])>>))
    ELSE JsonError

\* the elements of a JSON array from token i on: value , ... ]
RECURSIVE JsonElements(_, _, _)
JsonElements(toks, i, acc) ==
    IF i + 1 > Len(toks) \/ toks[i] \notin JsonValues THEN JsonError
    ELSE IF toks[i + 1] = "]" THEN
        IF i + 1 = Len(toks) THEN [ok |-> TRUE, obj |-> Append(acc, PyValue(toks[i]))]
        ELSE JsonError
    ELSE IF toks[i + 1] = "," THEN JsonElements(toks, i + 2, Append(acc, PyValue(toks[i])))
    ELSE JsonError

\* json.loads(param_spec): the dict as its items in order, or the list; ok
\* is FALSE where JSONDecodeError is raised
json_loads(toks) ==
    IF Len(toks) < 2 THEN JsonError
    ELSE IF toks = <<"{", "}">> \/ toks = <<"[", "]">> THEN [ok |-> TRUE, obj |-> <<>>]
    ELSE IF toks[1] = "{" THEN JsonMembers(toks, 2, <<>>)
    ELSE IF toks[1] = "[" THEN JsonElements(toks, 2, <<>>)
    ELSE JsonError

\* spec.get(key, default): the last item with the key
SpecGet(obj, key, default) ==
    IF \E i \in 1..Len(obj) : obj[i][1] = key
    THEN obj[CHOOSE i \in 1..Len(obj) :
                 obj[i][1] = key /\ \A j \in (i + 1)..Len(obj) : obj[j][1] # key][2]
    ELSE default

RECURSIVE StripLeft(_)
StripLeft(s) == IF Len(s) > 0 /\ s[1] = " " THEN StripLeft(Tail(s)) ELSE s

Strip(s) == StripLeft(StripRight(s))

\* raw.split('#')[0]
RECURSIVE BeforeHash(_)
BeforeHash(raw) ==
    IF Len(raw) = 0 \/ raw[1] = "#" THEN <<>> ELSE <<raw[1]>> \o BeforeHash(Tail(raw))

\* _parse_default_value(raw): what is left of the text before a '#' is
\* evaluated as a literal, and is the value itself, without its quotes if
\* it has them, when it is not one
Unquoted(raw) ==
    IF Len(raw) >= 1 /\ raw[1] \in {DQ, SQ} /\ raw[Len(raw)] = raw[1]
    THEN StrV(SubSeq(raw, 2, Len(raw) - 1))
    ELSE StrV(raw)

DefaultOf(raw) ==
    IF EvalLiteral(raw).st = "value" THEN EvalLiteral(raw).val ELSE Unquoted(raw)

parse_default_value(raw) == DefaultOf(Strip(BeforeHash(Strip(raw))))

ParsedParameter(name, param_type, default_value, options, min_value, max_value, step) ==
    [name |-> name, param_type |-> param_type, default_value |-> default_value,
     options |-> options, min_value |-> min_value, max_value |-> max_value, step |-> step]

\* the branches on spec.get('type')
TypedParameter(name, default_value, obj) ==
    CASE SpecGet(obj, "\"type\"", "None") \in {"None", "\"integer\""} ->
           ParsedParameter(name, "number", default_value, <<>>, "None", "None", "None")
      [] SpecGet(obj, "\"type\"", "None") = "\"boolean\"" ->
           ParsedParameter(name, "boolean", default_value, <<>>, "None", "None", "None")
      [] SpecGet(obj, "\"type\"", "None") = "\"slider\"" ->
           ParsedParameter(name, "slider", default_value, <<>>,
                           SpecGet(obj, "\"min\"", "0"), SpecGet(obj, "\"max\"", "100"),
                           SpecGet(obj, "\"step\"", "1"))
      [] OTHER ->
           ParsedParameter(name, "string", default_value, <<>>, "None", "None", "None")

parse_param_line(var_name, default_raw, param_spec) ==
    IF Len(param_spec) > 0 /\ param_spec[1] = "[" /\ json_loads(param_spec).ok
    THEN ParsedParameter(var_name, "dropdown", parse_default_value(default_raw),
                         json_loads(param_spec).obj, "None", "None", "None")
    ELSE IF Len(param_spec) > 0 /\ param_spec[1] = "{" /\ json_loads(param_spec).ok
    THEN TypedParameter(var_name, parse_default_value(default_raw), json_loads(param_spec).obj)
    ELSE ParsedParameter(var_name, "string", parse_default_value(default_raw), <<>>,
                         "None", "None", "None")

\* the texts of the defaults: 10, -5, 0, 'd', "#f", True, [1], foo
DefaultTexts ==
    {<<"1", "0">>, <<"-", "5">>, <<"0">>, <<SQ, "d", SQ>>, <<DQ, "#", "f", DQ>>,
     TrueText, <<"[", "1", "]">>, <<"f", "o", "o">>}

SliderType == <<"\"type\"", ":", "\"slider\"">>

\* {"type":"slider","min":0,"max":100,"step":5} and specs with fewer
\* fields, with a null, of another type, without a comma, a list, and none
ParamSpecs ==
    {<<"{">> \o SliderType \o <<",", "\"min\"", ":", "0", ",", "\"max\"", ":", "100", ",",
                                "\"step\"", ":", "5", "}">>,
     <<"{">> \o SliderType \o <<"}">>,
     <<"{">> \o SliderType \o <<",", "\"min\"", ":", "1", "}">>,
     <<"{">> \o SliderType \o <<",", "\"max\"", ":", "9", "}">>,
     <<"{">> \o SliderType \o <<",", "\"step\"", ":", "2", "}">>,
     <<"{">> \o SliderType \o <<",", "\"min\"", ":", "null", "}">>,
     <<"{">> \o SliderType \o <<"\"min\"", ":", "1", "}">>,
     <<"{", "\"type\"", ":", "\"string\"", "}">>,
     <<"{", "\"type\"", ":", "null", "}">>,
     <<"[", "\"a\"", ",", "1", "]">>,
     <<>>}

ParamLineNames == {"x", "y"}

\* parser._parse_param_line(match) for one line
ParseParamLine ==
    \E name \in ParamLineNames, raw \in DefaultTexts, spec \in ParamSpecs :
        /\ last' = [op |-> "parse_param_line", engine |-> 0, key |-> name, bp |-> NoPath,
                    code |-> raw, params |-> spec,
                    res |-> parse_param_line(name, raw, spec)]
        /\ UNCHANGED <<allocated, namespace, base_path, html_outputs, sessions,
                       output_target, viewVars, threadVars, importVars, trace_messages>>

NextParser == ParseParamLine

SpecParser == Init /\ [][NextParser]_vars

(***************************************************************************)
(* SpecScript: ColabNotebookParser.parse_py_content (parser.py) on a       *)
(* script given as its lines.  A line comes with the JSON tokens of its    *)
(* directive: what stands between the braces of a title, the spec of a     *)
(* parameter.                                                              *)
(*   title   # @title text; without a text TITLE_PATTERN does not match    *)
(*   triple  a line with triple quotes; name tells where they are: "both"  *)
(*           for """text""", "bare" for """, "open" for """text, "close"   *)
(*           for text"""                                                   *)
(***************************************************************************)
ScriptLine(line, spec) == [line |-> line, spec |-> spec]

MaxScript == 3

TripleQuote == <<DQ, DQ, DQ>>

\* s.startswith(p)
StartsWith(s, p) == Len(s) >= Len(p) /\ SubSeq(s, 1, Len(p)) = p

\* s.endswith(p)
EndsWith(s, p) == Len(s) >= Len(p) /\ SubSeq(s, Len(s) - Len(p) + 1, Len(s)) = p

\* a piece of a triple-quoted line kept in markdown_content
Chunk(txt) == Line("raw", "", txt, FALSE)

\* '\n'.join(markdown_content), as the lines joined: one empty line is the
\* empty text
JoinLines(content) ==
    IF Len(content) = 1 /\ SourceText(content[1]) = <<>> THEN <<>> ELSE content

\* ParsedCell(), with the title, description and auto_run set for a new cell
NewCell(title, description, auto_run) ==
    [title |-> title, source_code |-> <<>>, description |-> description,
     cell_type |-> "code", auto_run |-> auto_run, is_setup_cell |-> FALSE,
     parameters |-> <<>>]

\* the locals of parse_py_content before the loop
ParserStart ==
    [cells |-> <<>>, current_cell |-> NewCell(<<>>, <<>>, FALSE),
     current_cell_lines |-> <<>>, in_markdown |-> FALSE, markdown_content |-> <<>>,
     pending_description |-> <<>>, raised |-> FALSE]

\* source_code.strip() is not empty
HasText(code) == \E i \in 1..Len(code) : Strip(SourceText(code[i])) # <<>>

\* the cells after `if current_cell_lines or current_cell.title:`
Flushed(st) ==
    IF /\ (Len(st.current_cell_lines) > 0 \/ st.current_cell.title # <<>>)
       /\ (HasText(st.current_cell_lines) \/ st.current_cell.title # <<>>)
    THEN Append(st.cells, [st.current_cell EXCEPT !.source_code = st.current_cell_lines])
    ELSE st.cells

\* TITLE_PATTERN.search(line)
TitleMatches(l) == l.kind = "title" /\ Len(l.text) > 0

\* PARAM_PATTERN.search(line)
ParamMatches(l) == l.kind = "assign" /\ l.param

\* opts.get('run') == 'auto' for opts = json.loads('{' + group(2) + '}');
\* JSONDecodeError leaves auto_run as it is
AutoRun(options) ==
    /\ Len(options) > 0
    /\ json_loads(<<"{">> \o options \o <<"}">>).ok
    /\ SpecGet(json_loads(<<"{">> \o options \o <<"}">>).obj, "\"run\"", "None") = "\"auto\""

\* ast.literal_eval raises TypeError, which _parse_default_value does not
\* catch, for a dict display whose key is a list
literal_eval_raises(raw) == Len(raw) >= 2 /\ raw[1] = "{" /\ raw[2] = "["

\* the markdown branches of the loop
MarkdownStart(st, s) ==
    IF EndsWith(s, TripleQuote) /\ Len(s) > 6
    THEN [st EXCEPT !.markdown_content = <<>>,
                    !.pending_description = JoinLines(<<Chunk(SubSeq(s, 4, Len(s) - 3))>>)]
    ELSE [st EXCEPT !.in_markdown = TRUE,
                    !.markdown_content =
                        IF Len(s) > 3 THEN <<Chunk(SubSeq(s, 4, Len(s)))>> ELSE <<>>]

MarkdownEnd(st, content) ==
    [st EXCEPT !.markdown_content = content, !.pending_description = JoinLines(content),
               !.in_markdown = FALSE]

InMarkdown(st, l, s) ==
    IF EndsWith(s, TripleQuote)
    THEN MarkdownEnd(st, st.markdown_content
                            \o (IF Len(s) > 3 THEN <<Chunk(SubSeq(s, 1, Len(s) - 3))>>
                                ELSE <<>>))
    ELSE [st EXCEPT !.markdown_content = Append(@, l)]

\* one turn of the while loop
ParseLine(st, item, s) ==
    IF st.raised THEN st
    ELSE IF StartsWith(s, TripleQuote) /\ ~st.in_markdown THEN MarkdownStart(st, s)
    ELSE IF st.in_markdown THEN InMarkdown(st, item.line, s)
    ELSE IF TitleMatches(item.line) THEN
        [st EXCEPT !.cells = Flushed(st),
                   !.current_cell = NewCell(Strip(item.line.text), st.pending_description,
                                            AutoRun(item.spec)),
                   !.pending_description = <<>>,
                   !.current_cell_lines = <<>>]
    ELSE IF ParamMatches(item.line) THEN
        IF literal_eval_raises(Strip(BeforeHash(Strip(item.line.text))))
        THEN [st EXCEPT !.raised = TRUE]
        ELSE [st EXCEPT !.current_cell.parameters =
                            Append(@, parse_param_line(item.line.name, item.line.text,
                                                       item.spec)),
                        !.current_cell_lines = Append(@, item.line)]
    ELSE [st EXCEPT !.current_cell_lines = Append(@, item.line)]

RECURSIVE ParseLines(_, _, _)
ParseLines(st, script, i) ==
    IF i > Len(script) THEN st
    ELSE ParseLines(ParseLine(st, script[i], Strip(SourceText(script[i].line))), script, i + 1)

\* the turn without `and not cell.parameters`
identify_setup_cell_any(cell) ==
    IF is_setup(cell.source_code, cell.title)
    THEN [cell EXCEPT !.is_setup_cell = TRUE, !.cell_type = "setup"]
    ELSE cell

\* the turn of _identify_setup_cells for one cell
identify_setup_cell(cell) ==
    IF is_setup(cell.source_code, cell.title) /\ cell.parameters = <<>>
    THEN [cell EXCEPT !.is_setup_cell = TRUE, !.cell_type = "setup"]
    ELSE cell

identify_setup_cells(cells) == [i \in 1..Len(cells) |-> identify_setup_cell(cells[i])]

\* what parse_py_content gives for the locals the loop ended with
Returned(st) ==
    IF st.raised THEN [raised |-> TRUE, cells |-> <<>>]
    ELSE [raised |-> FALSE, cells |-> identify_setup_cells(Flushed(st))]

parse_py_content(script) == Returned(ParseLines(ParserStart, script, 1))

\* # @title A
TitleA == ScriptLine(Line("title", "", <<"A">>, FALSE), <<>>)

\* # @title B {"run":"auto"}
TitleAuto == ScriptLine(Line("title", "", <<"B">>, FALSE), <<"\"run\"", ":", "\"auto\"">>)

\* # @title C {"run":auto}
TitleBad == ScriptLine(Line("title", "", <<"C">>, FALSE), <<"\"run\"", ":", "auto">>)

\* # @title IMPORT x
TitleImport ==
    ScriptLine(Line("title", "", <<"I", "M", "P", "O", "R", "T", " ", "x">>, FALSE), <<>>)

\* print(x)
PrintX == ScriptLine(Line("print", "x", <<>>, FALSE), <<>>)

\* x = 10  # @param {"type":null}
ParamX == ScriptLine(Line("assign", "x", <<"1", "0">>, TRUE),
                     <<"{", "\"type\"", ":", "null", "}">>)

\* x = 10  # @param {"type":"slider"
ParamBad == ScriptLine(Line("assign", "x", <<"1", "0">>, TRUE),
                       <<"{", "\"type\"", ":", "\"slider\"">>)

\* y = {[1]: 2}  # @param
ParamUnhashable ==
    ScriptLine(Line("assign", "y", <<"{", "[", "1", "]", ":", " ", "2", "}">>, TRUE), <<>>)

\* !pip install tyk
PipLine == ScriptLine(Line("pip", "", <<"t", "y", "k">>, FALSE), <<>>)

BlankLine == ScriptLine(Line("blank", "", <<>>, FALSE), <<>>)

\* """d""" and """e"""
DocD == ScriptLine(Line("triple", "both", <<"d">>, FALSE), <<>>)

DocE == ScriptLine(Line("triple", "both", <<"e">>, FALSE), <<>>)

\* """
BareQuotes == ScriptLine(Line("triple", "bare", <<>>, FALSE), <<>>)

\* """"""
EmptyDoc == ScriptLine(Line("triple", "both", <<>>, FALSE), <<>>)

\* hi
TextLine == ScriptLine(Line("raw", "", <<"h", "i">>, FALSE), <<>>)

ScriptLines ==
    {TitleA, TitleAuto, TitleBad, TitleImport, PrintX, ParamX, ParamBad, ParamUnhashable,
     PipLine, BlankLine, DocD, DocE, BareQuotes, EmptyDoc, TextLine}

Scripts == UNION {[1..n -> ScriptLines] : n \in 0..MaxScript}

\* the parser is handed the text of a file
InitScript ==
    /\ allocated = 0
    /\ namespace = [e \in EngineIds |-> EmptyNamespace]
    /\ base_path = [e \in EngineIds |-> NoPath]
    /\ html_outputs = [e \in EngineIds |-> <<>>]
    /\ trace_messages = [e \in EngineIds |-> <<>>]
    /\ sessions = [k \in SessionKeys |-> 0]
    /\ output_target = 0
    /\ \E script \in Scripts :
           last = [op |-> "content", engine |-> 0, key |-> "", bp |-> NoPath,
                   code |-> script, params |-> <<>>, res |-> NoResult]
    /\ InitRows

\* parser.parse_py_content(content)
ParsePyContent ==
    /\ last.op = "content"
    /\ last' = [last EXCEPT !.op = "parse_py_content", !.res = parse_py_content(last.code)]
    /\ UNCHANGED <<allocated, namespace, base_path, html_outputs, sessions,
                   output_target, viewVars, threadVars, importVars, trace_messages>>

NextScript == ParsePyContent

SpecScript == InitScript /\ [][NextScript]_vars

(***************************************************************************)
(* SpecExport: one parameter line through import_notebook, export_notebook *)
(* and the parser again (importer.py).  The source line of the parameter   *)
(* is its own @param line, which the pattern of export_notebook matches.   *)
(* A number of the spec is kept as its token: the FloatField gives back    *)
(* an equal number.                                                        *)
(***************************************************************************)
\* str(parsed_param.default_value) if it is not None else ""
StoredDefault(value) == IF value = NoneV THEN <<>> ELSE StrOf(value)

\* the Parameter row import_notebook creates for a parsed parameter
StoredParameter(p) == [p EXCEPT !.default_value = StoredDefault(p.default_value)]

RECURSIVE NoLeadingZeros(_)
NoLeadingZeros(ds) ==
    IF Len(ds) > 1 /\ ds[1] = "0" THEN NoLeadingZeros(Tail(ds)) ELSE ds

RECURSIVE NoTrailingZeros(_)
NoTrailingZeros(ds) ==
    IF Len(ds) > 1 /\ ds[Len(ds)] = "0" THEN NoTrailingZeros(SubSeq(ds, 1, Len(ds) - 1))
    ELSE ds

\* the digits of a text after its sign
Unsigned(txt) == IF Len(txt) > 0 /\ txt[1] \in {"-", "+"} THEN Tail(txt) ELSE txt

\* the sign str() writes before the digits ds
SignOf(txt, ds) ==
    IF Len(txt) > 0 /\ txt[1] = "-" /\ \E i \in 1..Len(ds) : ds[i] \in Digits \ {"0"}
    THEN <<"-">> ELSE <<>>

\* int(value) does not raise
IsIntText(value) == AllDigits(Unsigned(Strip(value)))

\* str(int(value))
IntText(value) ==
    SignOf(Strip(value), Unsigned(Strip(value))) \o NoLeadingZeros(Unsigned(Strip(value)))

\* where the point of a text is, 0 without one
PointAt(txt) ==
    IF \E i \in 1..Len(txt) : txt[i] = "." THEN CHOOSE i \in 1..Len(txt) : txt[i] = "." ELSE 0

\* float(value) does not raise, for a text with a point: digits on both
\* sides of it
IsPointText(value) ==
    /\ PointAt(Unsigned(Strip(value))) > 0
    /\ AllDigits(SubSeq(Unsigned(Strip(value)), 1, PointAt(Unsigned(Strip(value))) - 1))
    /\ AllDigits(SubSeq(Unsigned(Strip(value)), PointAt(Unsigned(Strip(value))) + 1,
                        Len(Unsigned(Strip(value)))))

\* str(float(value)) for such a text
PointText(value) ==
    SignOf(Strip(value), Unsigned(Strip(value)))
        \o NoLeadingZeros(SubSeq(Unsigned(Strip(value)), 1,
                                 PointAt(Unsigned(Strip(value))) - 1))
        \o <<".">>
        \o NoTrailingZeros(SubSeq(Unsigned(Strip(value)), PointAt(Unsigned(Strip(value))) + 1,
                                  Len(Unsigned(Strip(value)))))

\* str(value).replace('"', '\\"')
RECURSIVE Escaped(_)
Escaped(value) ==
    IF Len(value) = 0 THEN <<>>
    ELSE (IF value[1] = DQ THEN <<BSL, DQ>> ELSE <<value[1]>>) \o Escaped(Tail(value))

\* f'"{escaped}"'
QuotedText(value) == <<DQ>> \o Escaped(value) \o <<DQ>>

\* _format_default_value(value, param_type)
format_default_value(value, param_type) ==
    CASE param_type = "boolean" ->
           IF lower(value) \in {<<"t", "r", "u", "e">>, <<"1">>, <<"y", "e", "s">>}
           THEN TrueText ELSE FalseText
      [] param_type \in {"number", "slider"} ->
           IF PointAt(value) > 0
           THEN (IF IsPointText(value) THEN PointText(value) ELSE <<"0">>)
           ELSE (IF IsIntText(value) THEN IntText(value) ELSE <<"0">>)
      [] param_type = "dropdown" ->
           IF IsIntText(value) \/ IsPointText(value) THEN value ELSE QuotedText(value)
      [] OTHER -> QuotedText(value)

\* the JSON token json.dumps writes for a value
JsonOf(v) == IF v = "None" THEN "null" ELSE v

\* json.dumps(param.options), as tokens
RECURSIVE DumpedItems(_)
DumpedItems(options) ==
    IF Len(options) = 0 THEN <<>>
    ELSE IF Len(options) = 1 THEN <<JsonOf(options[1])>>
    ELSE <<JsonOf(options[1]), ",">> \o DumpedItems(Tail(options))

\* value or default
OrDefault(v, default) == IF v \in {"None", "0"} THEN default ELSE v

\* _format_param_spec(param), as tokens
format_param_spec(param) ==
    CASE param.param_type = "dropdown" /\ param.options # <<>> ->
           <<"[">> \o DumpedItems(param.options) \o <<"]">>
      [] param.param_type = "boolean" -> <<"{", "\"type\"", ":", "\"boolean\"", "}">>
      [] param.param_type = "slider" ->
           <<"{", "\"type\"", ":", "\"slider\"", ",",
             "\"min\"", ":", OrDefault(param.min_value, "0"), ",",
             "\"max\"", ":", OrDefault(param.max_value, "100"), ",",
             "\"step\"", ":", OrDefault(param.step, "1"), "}">>
      [] param.param_type = "number" -> <<"{", "\"type\"", ":", "null", "}">>
      [] OTHER -> <<"{", "\"type\"", ":", "\"string\"", "}">>

\* {"type":"slider","min":-10,"max":0,"step":1}
SliderToZero ==
    <<"{">> \o SliderType \o <<",", "\"min\"", ":", "-10", ",", "\"max\"", ":", "0", ",",
                                "\"step\"", ":", "1", "}">>

ExportSpecs == ParamSpecs \cup {SliderToZero}

\* a file with the line `name = default  # @param spec` is to be imported
InitExport ==
    /\ allocated = 0
    /\ namespace = [e \in EngineIds |-> EmptyNamespace]
    /\ base_path = [e \in EngineIds |-> NoPath]
    /\ html_outputs = [e \in EngineIds |-> <<>>]
    /\ trace_messages = [e \in EngineIds |-> <<>>]
    /\ sessions = [k \in SessionKeys |-> 0]
    /\ output_target = 0
    /\ \E name \in ParamLineNames, raw \in DefaultTexts, spec \in ExportSpecs :
           last = [op |-> "line", engine |-> 0, key |-> name, bp |-> NoPath,
                   code |-> raw, params |-> spec, res |-> NoResult]
    /\ InitRows

\* import_notebook: the line is parsed and its Parameter row created
ImportParameter ==
    /\ last.op = "line"
    /\ last' = [last EXCEPT !.op = "import_notebook",
                            !.res = StoredParameter(
                                        parse_param_line(last.key, last.code, last.params))]
    /\ UNCHANGED <<allocated, namespace, base_path, html_outputs, sessions,
                   output_target, viewVars, threadVars, importVars, trace_messages>>

\* export_notebook: f'{indent}{var_name} = {default_val}  # @param {param_spec}'
ExportParameter ==
    /\ last.op = "import_notebook"
    /\ last' = [last EXCEPT !.op = "export_notebook",
                            !.code = format_default_value(last.res.default_value,
                                                          last.res.param_type),
                            !.params = format_param_spec(last.res)]
    /\ UNCHANGED <<allocated, namespace, base_path, html_outputs, sessions,
                   output_target, viewVars, threadVars, importVars, trace_messages>>

\* the exported line is imported again; res keeps the row of the first
\* import beside the new one
ReimportParameter ==
    /\ last.op = "export_notebook"
    /\ last' = [last EXCEPT !.op = "reimport",
                            !.res = [stored |-> last.res,
                                     again |-> StoredParameter(
                                                   parse_param_line(last.key, last.code,
                                                                    last.params))]]
    /\ UNCHANGED <<allocated, namespace, base_path, html_outputs, sessions,
                   output_target, viewVars, threadVars, importVars, trace_messages>>

NextExport ==
    \/ ImportParameter
    \/ ExportParameter
    \/ ReimportParameter

SpecExport == InitExport /\ [][NextExport]_vars

(***************************************************************************)
(* SpecConc: request threads of one process, each serving one request      *)
(* (get_or_create_session, then execute), interleaved statement by         *)
(* statement.                                                              *)
(***************************************************************************)
\* x = 10 / display(HTML("h")) / print(x)
CShow ==
    <<Line("assign", "x", <<"1", "0">>, FALSE), Line("display", "", <<"h">>, FALSE),
      Line("print", "x", <<>>, FALSE)>>

ThreadCodes == {CShow, CPrint}

At(t, pc) == threads[t].pc = pc

Goto(t, pc) == threads' = [threads EXCEPT ![t].pc = pc]

\* a request arrives: its session key and the source of its cell
StartRequest(t) ==
    /\ At(t, "idle")
    /\ \E key \in UserKeys, code \in ThreadCodes :
          threads' = [threads EXCEPT ![t] = [NoThread EXCEPT !.pc = "check",
                                                !.key = key, !.code = code]]
    /\ UNCHANGED <<allocated, namespace, base_path, html_outputs, sessions,
                   output_target, last, viewVars, importVars, trace_messages, sys_stdout, streams>>

\* if session_key not in self.sessions:
CheckKey(t) ==
    /\ At(t, "check")
    /\ Goto(t, IF KeyPresent(threads[t].key) THEN "return" ELSE "construct")
    /\ UNCHANGED <<allocated, namespace, base_path, html_outputs, sessions,
                   output_target, last, viewVars, importVars, trace_messages, sys_stdout, streams>>

\* self.sessions[session_key] = CellExecutor(base_path=base_path)
StoreSession(t) ==
    /\ At(t, "construct")
    /\ Construct(allocated + 1, DataPath)
    /\ sessions' = [sessions EXCEPT ![threads[t].key] = allocated + 1]
    /\ Goto(t, "return")
    /\ UNCHANGED <<output_target, last, viewVars, importVars, trace_messages, sys_stdout, streams>>

\* return self.sessions[session_key]
ReturnSession(t) ==
    /\ At(t, "return")
    /\ threads' = [threads EXCEPT ![t].engine = sessions[threads[t].key],
                                  ![t].pc = "clear"]
    /\ UNCHANGED <<allocated, namespace, base_path, html_outputs, sessions,
                   output_target, last, viewVars, importVars, trace_messages, sys_stdout, streams>>

\* self._html_outputs.clear(); code = self._sanitize_code(code)
ClearOutputs(t) ==
    /\ At(t, "clear")
    /\ html_outputs' = [html_outputs EXCEPT ![threads[t].engine] = <<>>]
    /\ threads' = [threads EXCEPT ![t].code = sanitize_code(@), ![t].pc = "target"]
    /\ UNCHANGED <<allocated, namespace, base_path, sessions, output_target, last,
                   viewVars, importVars, trace_messages, sys_stdout, streams>>

\* set_output_target(self._html_outputs)
SetOutputTarget(t) ==
    /\ At(t, "target")
    /\ output_target' = threads[t].engine
    /\ Goto(t, "enter")
    /\ UNCHANGED <<allocated, namespace, base_path, html_outputs, sessions, last,
                   viewVars, importVars, trace_messages, sys_stdout, streams>>

\* redirect_stdout(stdout_capture).__enter__(), and compile()
EnterRedirect(t) ==
    /\ At(t, "enter")
    /\ sys_stdout' = t
    /\ threads' = [threads EXCEPT
                      ![t].old = sys_stdout,
                      ![t].line = 1,
                      ![t].exc = IF Compiles(threads[t].code) THEN NoExc
                                 ELSE exec(EmptyNamespace, <<>>, threads[t].code).exc,
                      ![t].pc = IF Compiles(threads[t].code) THEN "exec" ELSE "exit"]
    /\ UNCHANGED <<allocated, namespace, base_path, html_outputs, sessions,
                   output_target, last, viewVars, importVars, trace_messages, streams>>

\* one statement of exec(code, self.namespace): print writes to sys.stdout,
\* display appends to the list the container holds
Stepped(t, s) ==
    /\ namespace' = StoreNamespace(threads[t].engine, s.ns)
    /\ trace_messages' = [trace_messages EXCEPT ![threads[t].engine] = s.trace]
    /\ streams' = [streams EXCEPT ![sys_stdout] = @ \o s.out]
    /\ html_outputs' = [html_outputs EXCEPT ![output_target] = @ \o s.html]
    /\ threads' = [threads EXCEPT
                      ![t].exc = s.exc,
                      ![t].line = @ + 1,
                      ![t].pc = IF s.exc # NoExc \/ threads[t].line = Len(threads[t].code)
                                THEN "exit" ELSE "exec"]

ExecStatement(t) ==
    /\ At(t, "exec")
    /\ IF threads[t].line > Len(threads[t].code)
       THEN /\ Goto(t, "exit")
            /\ UNCHANGED <<namespace, trace_messages, streams, html_outputs>>
       ELSE Stepped(t, ExecLine(namespace[threads[t].engine],
                                trace_messages[threads[t].engine],
                                threads[t].code[threads[t].line]))
    /\ UNCHANGED <<allocated, base_path, sessions, output_target, last, viewVars, importVars,
                   sys_stdout>>

\* redirect_stdout.__exit__(): sys.stdout = the stream saved on entry
ExitRedirect(t) ==
    /\ At(t, "exit")
    /\ sys_stdout' = threads[t].old
    /\ Goto(t, "collect")
    /\ UNCHANGED <<allocated, namespace, base_path, html_outputs, sessions,
                   output_target, last, viewVars, importVars, trace_messages, streams>>

\* html_output = "\n".join(self._html_outputs) followed by the figures of
\* the namespace when exec() returned, and
\* return stdout_capture.getvalue(), html_output, error_msg
Collected(t, e, exc) ==
    IF exc = NoExc
    THEN Result(streams[t], html_outputs[e] \o extract_plotly_figures(namespace[e]),
                NoExc, FALSE)
    ELSE IF exc.base THEN Result(<<>>, <<>>, exc, TRUE)
    ELSE Result(streams[t], <<>>, exc, FALSE)

ReturnResult(t) ==
    /\ At(t, "collect")
    /\ threads' = [threads EXCEPT
                      ![t].res = Collected(t, threads[t].engine, threads[t].exc),
                      ![t].pc = "done"]
    /\ UNCHANGED <<allocated, namespace, base_path, html_outputs, sessions,
                   output_target, last, viewVars, importVars, trace_messages, sys_stdout, streams>>

NextConc ==
    \E t \in Threads :
        \/ StartRequest(t)
        \/ CheckKey(t)
        \/ StoreSession(t)
        \/ ReturnSession(t)
        \/ ClearOutputs(t)
        \/ SetOutputTarget(t)
        \/ EnterRedirect(t)
        \/ ExecStatement(t)
        \/ ExitRedirect(t)
        \/ ReturnResult(t)

SpecConc == Init /\ [][NextConc]_vars

(***************************************************************************)
(* Properties of the execution engine and of the registry.                 *)
(***************************************************************************)
\* the last operation rebinds (or wipes) name n of engine e
Rebinds(e, n) ==
    /\ last.engine = e
    /\ \/ last.op \in {"reset", "reset_session", "new", "create"}
       \/ last.op = "get_or_create"
       \/ last.op = "set_variable" /\ n = "x"
       \/ /\ last.op = "execute"
          /\ \E i \in 1..Len(last.code) :
                last.code[i].kind = "assign" /\ last.code[i].name = n

C2_NamespaceIsolation ==
    [][/\ \A b \in EngineIds :
            (b # last'.engine /\ b <= allocated) => namespace'[b] = namespace[b]
       /\ (last'.op = "execute" /\ last'.code = CPrint
           /\ namespace[last'.engine]["x"] = Unbound)
                => /\ last'.res.error.type = "NameError"
                   /\ last'.res.out = <<>>]_vars

\* two engines registered under different keys: one binds x, the other has
\* just failed to read it
C2_Witness ==
    /\ last.op = "execute"
    /\ last.code = CPrint
    /\ last.res.error.type = "NameError"
    /\ \E k1, k2 \in AllKeys :
          /\ k1 # k2
          /\ sessions[k1] = last.engine
          /\ sessions[k2] \notin {0, last.engine}
          /\ namespace[sessions[k2]]["x"] # Unbound

\* the statement of the source that raises, when every statement before it
\* runs without error
RaisedBy(code) ==
    IF \E i \in 1..Len(code) : code[i].kind = "raise"
    THEN LET i == CHOOSE j \in 1..Len(code) : code[j].kind = "raise"
         IN  Exc(code[i].name, code[i].text)
    ELSE NoExc

\* C3: error isolation.  No exception leaves execute(), and when the cell
\* raises, the returned error names the exception type and its message.
C3_ErrorIsolation ==
    last.op = "execute" =>
        /\ ~last.res.raised
        /\ RaisedBy(last.code) # NoExc =>
              /\ last.res.error.type = RaisedBy(last.code).type
              /\ last.res.error.msg = RaisedBy(last.code).msg

\* C4: parameter override.  When the source assigns a literal to a name at
\* the start of a line and params maps that name to v, the namespace binds
\* the name to v after the call.
C4_ParameterOverride ==
    (last.op = "execute" /\ Len(last.params) > 0) =>
        \A i \in 1..Len(last.code) :
            (last.code[i].kind = "assign" /\ last.code[i].name = last.params[1][1]
             /\ last.params[1][2].t \in {"int", "str", "true", "false", "none"})
                => namespace[last.engine][last.params[1][1]] = last.params[1][2]

\* C18: reset() is equivalent to a fresh engine.  When reset() has just
\* returned, every source executed next returns the same text output, HTML
\* output and error, and leaves the same namespace and the same trace log,
\* as it does on a newly constructed CellExecutor with the same base path.
C18_ResetIsFresh ==
    last.op = "reset" =>
        \A code \in Codes :
            Execute(last.engine, namespace[last.engine], trace_messages[last.engine],
                    code, <<>>)
              = Execute(last.engine, setup_namespace(base_path[last.engine]), <<>>,
                        code, <<>>)

\* C19: parameter override for list and dict values.  When the only line of
\* the source assigns a list or dict literal to a name and params maps that
\* name to another list or dict, the namespace binds the name to the value
\* of params after the call.
C19_ListDictOverride ==
    (/\ last.op = "execute"
     /\ Len(last.code) = 1 /\ last.code[1].kind = "assign"
     /\ EvalLiteral(last.code[1].text).val.t \in {"list", "dict"}
     /\ Len(last.params) = 1 /\ last.params[1][1] = last.code[1].name
     /\ last.params[1][2].t \in {"list", "dict"})
        => namespace[last.engine][last.code[1].name] = last.params[1][2]

\* C6: registry identity.  get_or_create for a key that has an engine
\* returns that engine and leaves the registry, every namespace and every
\* base path as they were, whatever base path is passed; for a key without
\* an engine it constructs one with the base path passed.
C6_RegistryIdentity ==
    [][last'.op = "get_or_create" =>
          IF sessions[last'.key] # 0
          THEN /\ last'.engine = sessions[last'.key]
               /\ sessions' = sessions
               /\ allocated' = allocated
               /\ namespace' = namespace
               /\ base_path' = base_path
          ELSE /\ last'.engine = allocated + 1
               /\ allocated' = allocated + 1
               /\ sessions' = [sessions EXCEPT ![last'.key] = allocated + 1]
               /\ base_path'[last'.engine] = last'.bp]_vars

\* get_or_create has just returned an existing engine that binds x, and
\* was passed a base path other than the one the engine was built with
C6_Witness ==
    /\ last.op = "get_or_create"
    /\ base_path[last.engine] # last.bp
    /\ namespace[last.engine]["x"] # Unbound
    /\ namespace[last.engine]["BASE_PATH"] = StrV(base_path[last.engine])

(***************************************************************************)
(* Properties of the request handlers.                                     *)
(***************************************************************************)
NoRequest == Request("", 0, "", 0, <<>>, NoResult)

\* the request served last
Latest == IF history = <<>> THEN NoRequest ELSE history[Len(history)]

\* request i of the log is served for the same (user, notebook) as request j
SameSession(i, j) ==
    /\ history[i].user = history[j].user
    /\ history[i].notebook = history[j].notebook

\* the reset endpoint is served for that session between requests j and i
ResetBetween(j, i) ==
    \E k \in (j + 1)..(i - 1) :
        history[k].op = "reset_session" /\ SameSession(k, i)

\* request j executes cell c
Executes(j, c) ==
    \/ history[j].op = "run_cell" /\ history[j].cell = c
    \/ history[j].op = "run_setup" /\ c \in SetupIds(history[j].notebook)

\* the source of cell c assigns name n
Assigns(c, n) ==
    \E i \in 1..Len(Cells[c].source_code) :
        Cells[c].source_code[i].kind = "assign" /\ Cells[c].source_code[i].name = n

\* C5: session reset clears all state.  Once the reset endpoint is served
\* for (notebook, user) there is no NotebookSession row for the pair and
\* the engine under the user's key, if there is one, binds nothing but the
\* seeded names; a print(x) cell run by that user in the next request
\* returns NameError.
C5_ResetClearsState ==
    [][/\ Latest'.op = "reset_session" /\ Len(history') > Len(history) =>
            /\ ~nb_sessions'[Latest'.notebook, Latest'.user].exists
            /\ sessions'[UserKey(Latest'.user)] # 0 =>
                  namespace'[sessions'[UserKey(Latest'.user)]]
                      = setup_namespace(base_path'[sessions'[UserKey(Latest'.user)]])
       /\ (/\ Latest.op = "reset_session"
           /\ Latest'.op = "run_cell"
           /\ Latest'.user = Latest.user
           /\ Cells[Latest'.cell].source_code = CPrint) =>
               /\ Latest'.res.error.type = "NameError"
               /\ Latest'.res.out = <<>>]_vars

\* a user saved a parameter and bound x, reset the notebook, and has just
\* failed to read x
C5_Witness ==
    /\ Len(history) = 3
    /\ history[1].op = "run_cell" /\ history[1].params # <<>>
    /\ history[1].res.error = NoExc /\ ~history[1].res.raised
    /\ history[2].op = "reset_session" /\ SameSession(2, 1)
    /\ history[3].op = "run_cell" /\ history[3].user = history[1].user
    /\ history[3].res.error.type = "NameError"
    /\ ~nb_sessions[history[1].notebook, history[1].user].exists

\* C9: a namespace is owned by one (user, notebook) session.  A print(x)
\* cell served for a user in a notebook returns x only if an earlier request
\* of the same user in the same notebook executed a cell assigning x;
\* otherwise it returns NameError.
C9_SessionOwnsNamespace ==
    \A i \in 1..Len(history) :
        (/\ history[i].op = "run_cell"
         /\ Cells[history[i].cell].source_code = CPrint) =>
            \/ history[i].res.error.type = "NameError"
            \/ \E j \in 1..(i - 1), c \in CellIds :
                  SameSession(j, i) /\ Executes(j, c) /\ Assigns(c, "x")

\* C10: setup ordering.  Within one session no setup cell is executed twice
\* without a reset in between, and every request that runs an interactive
\* cell comes after requests that executed each setup cell of its notebook
\* since the last reset of the session.
C10_SetupOrdering ==
    /\ \A i \in 1..Len(history), j \in 1..Len(history), c \in CellIds :
          (j < i /\ SameSession(j, i) /\ Cells[c].is_setup_cell
           /\ Executes(j, c) /\ Executes(i, c)) => ResetBetween(j, i)
    /\ \A i \in 1..Len(history) :
          (history[i].op = "run_cell" /\ ~Cells[history[i].cell].is_setup_cell) =>
              \A c \in SetupIds(history[i].notebook) :
                  \E j \in 1..(i - 1) :
                      SameSession(j, i) /\ Executes(j, c) /\ ~ResetBetween(j, i)

\* the setup cells of request i's notebook have all executed without error
\* in its session, since the session's last reset
SetupDone(i) ==
    \A c \in SetupIds(history[i].notebook) :
        \E j \in 1..(i - 1) :
            /\ SameSession(j, i) /\ Executes(j, c) /\ ~ResetBetween(j, i)
            /\ history[j].res.error = NoExc /\ ~history[j].res.raised

\* C11: needs-setup condition.  A request to run an interactive cell in a
\* session whose setup cells have not executed successfully is answered
\* with the needs-setup outcome.
C11_NeedsSetup ==
    \A i \in 1..Len(history) :
        (/\ history[i].op = "run_cell"
         /\ ~Cells[history[i].cell].is_setup_cell
         /\ ~SetupDone(i)) => NeedsSetup(history[i].res)


\* C12: markdown cells never execute and never have parameters.  No
\* request executes a cell whose cell_type is markdown, no Execution row is
\* for such a cell, and no Parameter row belongs to one.
C12_MarkdownNeverExecutes ==
    /\ \A j \in 1..Len(history), c \in CellIds :
          Executes(j, c) => Cells[c].cell_type # "markdown"
    /\ \A i \in 1..Len(executions) : Cells[executions[i].cell].cell_type # "markdown"
    /\ \A p \in Parameters : cell_table[p.cell].cell_type # "markdown"

\* C13: every run-cell request creates exactly one Execution row, for its
\* cell and with the parameters posted, whose status is error exactly when
\* the engine returned an error and success otherwise; the rows created
\* before stay as they are.
C13_ExecutionRecorded ==
    [][(Latest'.op = "run_cell" /\ Len(history') > Len(history)) =>
          /\ Len(executions') = Len(executions) + 1
          /\ SubSeq(executions', 1, Len(executions)) = executions
          /\ executions'[Len(executions')].cell = Latest'.cell
          /\ executions'[Len(executions')].parameters = Latest'.params
          /\ executions'[Len(executions')].status =
                IF Latest'.res.error # NoExc THEN "error" ELSE "success"]_vars

\* C15: per-user parameter memory.  Every run-cell request leaves the
\* NotebookSession row of its (notebook, user) in place, mapping the key of
\* each parameter posted for the cell to the value posted and every other
\* key to what it mapped to before, and leaves the rows of every other
\* (notebook, user) as they were: each row maps a key to the value its user
\* supplied in the most recent run of that cell.
C15_ParameterMemory ==
    [][(Latest'.op = "run_cell" /\ Len(history') > Len(history)) =>
          /\ nb_sessions'[Latest'.notebook, Latest'.user].exists
          /\ \A i \in 1..Len(Latest'.params) :
                /\ ParamKey(Latest'.cell, Latest'.params[i][1])
                      \in DOMAIN nb_sessions'[Latest'.notebook, Latest'.user].parameter_values
                /\ nb_sessions'[Latest'.notebook, Latest'.user].parameter_values[
                        ParamKey(Latest'.cell, Latest'.params[i][1])] = Latest'.params[i][2]
          /\ \A k \in DOMAIN nb_sessions[Latest'.notebook, Latest'.user].parameter_values :
                (\A i \in 1..Len(Latest'.params) :
                     k # ParamKey(Latest'.cell, Latest'.params[i][1]))
                  => /\ k \in DOMAIN nb_sessions'[Latest'.notebook, Latest'.user].parameter_values
                     /\ nb_sessions'[Latest'.notebook, Latest'.user].parameter_values[k]
                           = nb_sessions[Latest'.notebook, Latest'.user].parameter_values[k]
          /\ \A p \in DOMAIN nb_sessions :
                p # <<Latest'.notebook, Latest'.user>> => nb_sessions'[p] = nb_sessions[p]]_vars

(***************************************************************************)
(* Properties of concurrent requests.                                      *)
(***************************************************************************)
\* get_or_create_session has returned to thread t
Handed(t) == threads[t].pc \in {"clear", "target", "enter", "exec", "exit", "collect", "done"}

\* C7: concurrent requests for one key get one engine.  Two threads that
\* get_or_create_session has returned to for the same key hold the same
\* instance.
C7_SameKeySameEngine ==
    \A t1 \in Threads, t2 \in Threads :
        (Handed(t1) /\ Handed(t2) /\ threads[t1].key = threads[t2].key)
            => threads[t1].engine = threads[t2].engine

\* what execute returns for the cell of thread t when nothing else runs: a
\* thread that has its engine to itself finds the namespace as constructed
Alone(t) ==
    Outcome(threads[t].engine, setup_namespace(base_path[threads[t].engine]),
            exec(setup_namespace(base_path[threads[t].engine]), <<>>, threads[t].code)).res

\* C8: engines executing concurrently share no output state.  A finished
\* execute on an engine that no other thread holds returns the text and
\* the HTML its own cell printed and displayed.
C8_NoSharedOutput ==
    \A t \in Threads :
        (/\ At(t, "done")
         /\ \A o \in Threads \ {t} : threads[o].engine # threads[t].engine) =>
            /\ threads[t].res.out = Alone(t).out
            /\ threads[t].res.html = Alone(t).html

(***************************************************************************)
(* Properties of the import (SpecImport)                                   *)
(***************************************************************************)
\* C14: the Execution log is append-only: every step of the system keeps
\* each row there is, unchanged and in its place, and only adds rows after
\* them.
C14_ExecutionsAppendOnly ==
    [][/\ Len(executions') >= Len(executions)
       /\ SubSeq(executions', 1, Len(executions)) = executions]_vars

\* the rows of the cells of notebook slug
CellsOf(slug) == {c \in DOMAIN cell_table : cell_table[c].notebook = slug}

\* row c is what the import creates for the parsed cell at index i
RowOf(c, i, parsed_cells) ==
    /\ cell_table[c].order = (i - 1) * 5
    /\ cell_table[c].cell_type = parsed_cells[i].cell_type
    /\ cell_table[c].is_setup_cell = parsed_cells[i].is_setup_cell
    /\ cell_table[c].source_code = parsed_cells[i].source_code
    /\ cell_table[c].parameters = parsed_cells[i].parameters

\* the cells of notebook slug are the parsed cells, one row each
Replaced(slug, parsed_cells) ==
    /\ Cardinality(CellsOf(slug)) = Len(parsed_cells)
    /\ \A i \in 1..Len(parsed_cells) : \E c \in CellsOf(slug) : RowOf(c, i, parsed_cells)

\* C16: import idempotence.  When import_notebook has ended, whatever was
\* imported before under the name or another, there is a notebook with the
\* slug of the name, its cells are exactly the cells parsed from the file
\* of this import, one row each with the parameters parsed for it, and no
\* two of them have the same order.
C16_ImportIdempotent ==
    (importer.pc = "idle" /\ importer.outcome # "") =>
        /\ importer.slug \in DOMAIN notebook_table
        /\ Replaced(importer.slug, importer.parsed_cells)
        /\ \A c, d \in CellsOf(importer.slug) :
              c # d => cell_table[c].order # cell_table[d].order

\* C17: replacing the cells of a notebook is atomic: no step of an import
\* into a notebook that was there leaves the notebook with cells that are
\* neither the cells it had nor all the cells parsed from the file, so
\* that no observer and no failure finds it in between.
C17_AtomicReplace ==
    [][\A nb \in DOMAIN notebook_table :
          \/ [c \in {d \in DOMAIN cell_table' : cell_table'[d].notebook = nb} |-> cell_table'[c]]
                = [c \in CellsOf(nb) |-> cell_table[c]]
          \/ /\ nb = importer.slug
             /\ Cardinality({d \in DOMAIN cell_table' : cell_table'[d].notebook = nb})
                   = Len(importer.parsed_cells)
             /\ \A i \in 1..Len(importer.parsed_cells) :
                   \E c \in DOMAIN cell_table' :
                       /\ cell_table'[c].notebook = nb
                       /\ cell_table'[c].order = (i - 1) * 5
                       /\ cell_table'[c].parameters = importer.parsed_cells[i].parameters]_vars

(***************************************************************************)
(* Properties of the parser (SpecParser)                                   *)
(***************************************************************************)
\* the spec is a JSON object whose type is slider
IsSliderSpec(toks) ==
    /\ Len(toks) > 0 /\ toks[1] = "{"
    /\ json_loads(toks).ok
    /\ \E i \in 1..Len(toks) - 2 :
          toks[i] = "\"type\"" /\ toks[i + 1] = ":" /\ toks[i + 2] = "\"slider\""

\* the value the spec gives a field, or the default when it has none
SpecField(toks, key, default) ==
    IF \E i \in 1..Len(toks) - 2 : toks[i] = key /\ toks[i + 1] = ":"
    THEN PyValue(toks[(CHOOSE i \in 1..Len(toks) - 2 : toks[i] = key /\ toks[i + 1] = ":") + 2])
    ELSE default

\* C20: slider directives.  For a line `name = default  # @param spec`
\* whose spec is a JSON object of type slider, parsing yields a parameter
\* with that name and param_type slider, whose default is the value of the
\* literal and whose min_value, max_value and step are the spec's min, max
\* and step, or 0, 100 and 1 where the spec has none.
C20_SliderDirective ==
    (last.op = "parse_param_line" /\ IsSliderSpec(last.params)) =>
        /\ last.res.name = last.key
        /\ last.res.param_type = "slider"
        /\ EvalLiteral(last.code).st = "value" =>
              last.res.default_value = EvalLiteral(last.code).val
        /\ last.res.min_value = SpecField(last.params, "\"min\"", "0")
        /\ last.res.max_value = SpecField(last.params, "\"max\"", "100")
        /\ last.res.step = SpecField(last.params, "\"step\"", "1")

\* C21: a parameter line whose spec is absent, or is {"type":null}, yields
\* a parameter of type number.
C21_AbsentOrNullIsNumber ==
    (/\ last.op = "parse_param_line"
     /\ last.params \in {<<>>, <<"{", "\"type\"", ":", "null", "}">>})
        => last.res.param_type = "number"

(***************************************************************************)
(* Claims about parse_py_content, under SpecScript.                        *)
(***************************************************************************)
\* the cells parse_py_content returned
ParsedCells == IF last.op = "parse_py_content" THEN last.res.cells ELSE <<>>

\* C22: no cell the parser returns holds two parameters of the same name.
C22_UniqueParameterNames ==
    \A c \in 1..Len(ParsedCells) :
        \A i, j \in 1..Len(ParsedCells[c].parameters) :
            ParsedCells[c].parameters[i].name = ParsedCells[c].parameters[j].name => i = j

\* the script parse_py_content was given
ParsedScript == IF last.op = "parse_py_content" THEN last.code ELSE <<>>

\* the titles of the title directive lines of a script, in their order
DirectiveTitles(script) ==
    LET IsTitle(item) == TitleMatches(item.line)
        titled == SelectSeq(script, IsTitle)
    IN  [i \in 1..Len(titled) |-> Strip(titled[i].line.text)]

\* the titles of the cells that have one, in their order
EmittedTitles(cells) ==
    LET Titled(cell) == cell.title # <<>>
        titled == SelectSeq(cells, Titled)
    IN  [i \in 1..Len(titled) |-> titled[i].title]

\* C23: every title directive line starts a cell, the cells come in the
\* order of their title directives, and no cell is without a title and
\* without source.
C23_CellSplitting ==
    /\ EmittedTitles(ParsedCells) = DirectiveTitles(ParsedScript)
    /\ \A c \in 1..Len(ParsedCells) :
           ParsedCells[c].title # <<>> \/ HasText(ParsedCells[c].source_code)

\* line i of the script is a triple-quoted block on one line, no other
\* line of the script opens or closes a block, and a title directive
\* follows it
BlockBeforeTitle(script, i) ==
    /\ script[i] \in {DocD, DocE}
    /\ \A j \in 1..Len(script) : script[j].line.kind = "triple" => script[j] \in {DocD, DocE}
    /\ \E j \in (i + 1)..Len(script) : TitleMatches(script[j].line)

\* C24: when the parser returns, the text of every triple-quoted block
\* that a title directive follows is in the description of a cell, and no
\* line of a block is in the source of a cell.
C24_DescriptionCapture ==
    /\ \A i \in 1..Len(ParsedScript) :
           (BlockBeforeTitle(ParsedScript, i) /\ ~last.res.raised) =>
               \E c \in 1..Len(ParsedCells) :
                   Chunk(ParsedScript[i].line.text) \in
                       {ParsedCells[c].description[k] :
                            k \in 1..Len(ParsedCells[c].description)}
    /\ \A c \in 1..Len(ParsedCells) :
           \A k \in 1..Len(ParsedCells[c].source_code) :
               ParsedCells[c].source_code[k].kind # "triple"

NoBlocks(script) == \A i \in 1..Len(script) : script[i].line.kind # "triple"

\* C26: the parser returns its cells whatever the directives look like; a
\* title whose options are not JSON leaves auto_run false, and a parameter
\* line whose spec is not JSON gives a parameter of type string.
C26_ParseErrorsSwallowed ==
    last.op = "parse_py_content" =>
        /\ ~last.res.raised
        /\ \A c \in 1..Len(ParsedCells) :
               ParsedCells[c].title = TitleBad.line.text => ~ParsedCells[c].auto_run
        /\ (NoBlocks(ParsedScript) /\ \E i \in 1..Len(ParsedScript) : ParsedScript[i] = ParamBad)
               => \E c \in 1..Len(ParsedCells) :
                      \E k \in 1..Len(ParsedCells[c].parameters) :
                          /\ ParsedCells[c].parameters[k].name = ParamBad.line.name
                          /\ ParsedCells[c].parameters[k].param_type = "string"

(***************************************************************************)
(* Claims about export_notebook, under SpecExport.                         *)
(***************************************************************************)
\* C27: the parameter read back from the exported line is stored with the
\* name, type, default, options and min, max and step of the parameter
\* that was exported.
C27_ExportRoundTrip ==
    last.op = "reimport" => last.res.again = last.res.stored

(***************************************************************************)
(* Claims about the setup flag and the display list.                       *)
(***************************************************************************)
\* request i ran the setup cells of nb for u without an error, and the
\* engine of u was not reset after it
SetupStands(i, nb, u) ==
    /\ history[i].op = "run_setup"
    /\ history[i].user = u
    /\ history[i].notebook = nb
    /\ history[i].res.error = NoExc
    /\ ~history[i].res.raised
    /\ \A j \in (i + 1)..Len(history) :
           ~(history[j].op = "reset_session" /\ history[j].user = u)

\* C28: where the NotebookSession of (notebook, user) records
\* setup_complete = true, the user's engine has run the setup cells of the
\* notebook without an error since it was last reset.
C28_SetupFlagConsistent ==
    \A nb \in Slugs, u \in Users :
        (/\ nb_sessions[nb, u].exists
         /\ <<"setup_complete", TRUE>> \in nb_sessions[nb, u].kernel_state)
            => \E i \in 1..Len(history) : SetupStands(i, nb, u)

\* C29: the engine an api_execute request runs its code on is not the
\* engine of a logged-in user whom run_cell or run_setup has served.
C29_ApiIsolation ==
    last.op = "api_execute" =>
        \A j \in 1..Len(history) :
            history[j].op \in {"run_cell", "run_setup"} =>
                sessions[UserKey(history[j].user)] # last.engine

(***************************************************************************)
(* Properties of the HTML returned by execute (SpecCharts)                 *)
(***************************************************************************)
\* the HTML items the statements of a source produce: what it displays and
\* the charts it creates
Produced(code) ==
    {code[i].text : i \in {j \in 1..Len(code) : code[j].kind = "display"}}
    \cup {to_html(FigureV(code[i].text)) :
              i \in {j \in 1..Len(code) : code[j].kind = "figure"}}

\* C30: the HTML returned by an execute holds only items produced by that
\* call: HTML displayed, and charts created, by earlier executes on the
\* same engine do not reappear in it.
C30_OnlyOwnHtml ==
    last.op = "execute" =>
        \A i \in 1..Len(last.res.html) : last.res.html[i] \in Produced(last.code)

====
